---- MODULE Spec2Model ----
(***************************************************************************)
(* A model of extern-trait: the proxy type generated by #[extern_trait]    *)
(* for an interface, the implementation type bound to it, the conversions  *)
(* between the two (from_impl, into_impl, downcast_ref, downcast_mut), the *)
(* destructor thunk, the forwarded methods and the derivation of the       *)
(* linker symbols.                                                         *)
(*                                                                         *)
(* Sizes are counted in pointer-width words.  A value of a type of n words *)
(* is a sequence of n words.  The erased representation Repr is a pair of  *)
(* words, and so is the storage of a proxy.                                *)
(***************************************************************************)
EXTENDS Integers, Sequences, FiniteSets, TLC

VARIABLES
    env,        \* the build environment of each generation site
    scen,       \* the interface / implementation pair that is linked
    bound,      \* the implementation type bound through #[extern_trait] impl
    proxies,    \* the proxy variables of the consumer, by slot
    strong,     \* strong count of the shared handle (0: GLOBAL not yet built)
    res,        \* what the last operation did and returned
    panicked    \* TRUE once an assertion has failed

vars == <<env, scen, bound, proxies, strong, res, panicked>>

-----------------------------------------------------------------------------
(* Bounds of the model *)

MaxWord == 1        \* a word is one of 0..MaxWord
MaxSize == 3        \* implementation types of 0..MaxSize words are offered
MaxProxies == 1     \* proxy variables of the consumer, besides the operands of a call

Words == 0..MaxWord

\* the proxy variables: the conversions are exercised on ProxyIds, the
\* forwarded calls on Slots, which leaves room for the second operand
ProxyIds == 1..MaxProxies
Slots == 1..(IF MaxProxies < 2 THEN 2 ELSE MaxProxies)

-----------------------------------------------------------------------------
(* Types, values and the erased representation *)

\* pub struct Repr(*const (), *const ()): two words
ReprWords == 2

TypeOf(name, size) == [name |-> name, size |-> size]

\* #[repr(transparent)] struct Proxy(Repr); unsafe impl IntRegRepr for Proxy
ProxyType == TypeOf("Proxy", ReprWords)

\* the values of a type the model draws inputs from: every word the same, and
\* one value whose words differ from each other
SampleValues(T) ==
    {[i \in 1..T.size |-> w] : w \in Words}
        \cup {[i \in 1..T.size |-> (i - 1) % (MaxWord + 1)]}

\* what the two return registers, or neighbouring memory, may hold
Junk == [1..ReprWords -> Words]

\* the junk that shows in the representation of a value of T: the registers
\* the value does not fill, or both when the call is undefined
JunkFor(T) ==
    {j \in Junk : \A i \in 1..ReprWords : (T.size <= ReprWords /\ i <= T.size) => j[i] = 0}

\* the outcomes of an undefined conversion or read of a T: any value when T
\* is wider than Repr, and nothing to choose otherwise
Undefined(T) == IF T.size <= ReprWords THEN {<<>>} ELSE SampleValues(T)

\* the binding's assertion: size_of::<T>() <= size_of::<Repr>() * 2
SizeAssert(size) == size <= ReprWords * 2

\* a value of T travels through reflect::<T> in integer registers only when
\* it fits the two words of Repr
FitsRepr(T) == T.size <= ReprWords

\* into_repr: reflect::<Self> called as extern "C" fn(Self) -> Repr.  The
\* words of the value come back in the low registers, the others hold what
\* they held (junk).  A type that does not fit is passed in memory and the
\* call is undefined: any pair of words may come back.
into_repr(T, v, junk) ==
    IF FitsRepr(T)
    THEN [i \in 1..ReprWords |-> IF i <= T.size THEN v[i] ELSE junk[i]]
    ELSE junk

\* from_repr: reflect::<Self> called as extern "C" fn(Repr) -> Self.  A type
\* that does not fit gets an arbitrary value (junkv).
from_repr(T, r, junkv) ==
    IF FitsRepr(T) THEN [i \in 1..T.size |-> r[i]] ELSE junkv

\* &*(self as *const Self as *const T): the words of T read at the address
\* of the proxy; words past the proxy's storage are neighbouring memory
Deref(T, storage, beyond) ==
    [i \in 1..T.size |-> IF i <= ReprWords THEN storage[i] ELSE beyond[i]]

\* a write through &mut *(self as *mut Self as *mut T)
WriteThrough(T, storage, v) ==
    [i \in 1..ReprWords |-> IF i <= T.size THEN v[i] ELSE storage[i]]

\* ConstTypeId::of::<T>(): one token per type
ConstTypeId(T) == T.name

\* the exported static TYPEID: ConstTypeId::of::<$ty>()
TYPEID == ConstTypeId(bound)

\* the conversions without the check, as they were when they were unsafe fns
assert_type_is_impl_Unchecked(T) == TRUE

\* assert!(typeid == TYPEID, ...)
assert_type_is_impl(T) == ConstTypeId(T) = TYPEID

-----------------------------------------------------------------------------
(* Proxy variables *)

\* st: free, live, taken (moved out by into_impl), released (the value that
\* was taken has been dropped), passed (moved into a forwarded call), dropped.
\* repr: the two words of storage.  val: the concrete value the proxy stands
\* for (kept beside the storage to state the claims).  written: a write went
\* through downcast_mut.  thunk, dtor: calls of the drop thunk on this
\* storage, runs of the concrete destructor on its value.
FreeSlot ==
    [st |-> "free", repr |-> <<0, 0>>, val |-> <<>>, written |-> FALSE,
     thunk |-> 0, dtor |-> 0]

LiveSlot(repr, v) ==
    [st |-> "live", repr |-> repr, val |-> v, written |-> FALSE,
     thunk |-> 0, dtor |-> 0]

Vacant(p) == proxies[p].st \in {"free", "dropped", "released", "passed"}

\* a thunk that forgets to run the destructor
DropThunk_Leak(slot) == [slot EXCEPT !.repr = <<0, 0>>, !.val = <<>>]

\* the exported drop thunk: drop_in_place(this: &mut $ty)
DropThunk(slot) == [slot EXCEPT !.dtor = @ + 1, !.repr = <<0, 0>>, !.val = <<>>]

\* impl Drop for Proxy: drop(self) through the link name of the thunk
ProxyDrop(slot) == DropThunk([slot EXCEPT !.st = "dropped", !.thunk = @ + 1])

\* the Arc handles given back by the destructor runs between two states of
\* a storage: ActualResource holds one handle, the other types none
HandlesReleased_None(before, after) == 0

HandlesReleased(before, after) ==
    IF bound.name = "ActualResource" THEN after.dtor - before.dtor ELSE 0

NoRes == [op |-> "none"]

-----------------------------------------------------------------------------
(* The interface Any of tests/reflect.rs, bound to a type of any accepted  *)
(* size; OtherImpl implements the trait without being bound.               *)

OtherTypes == {TypeOf("OtherImpl", s) : s \in 0..MaxSize}

AnyTypes == {bound} \cup OtherTypes

\* the proxy is read out of its storage and dropped all the same
MovedOut_AndDropped(slot) == [ProxyDrop(slot) EXCEPT !.st = "taken"]

\* ExternSafe::into_repr(self) in into_impl: the proxy is moved into reflect
\* and comes back as the Repr, so it never goes out of scope
MovedOut(slot) == [slot EXCEPT !.st = "taken", !.repr = <<0, 0>>]

\* Proxy::from_impl::<T>(value); dtor counts the runs of T's destructor on
\* value during the call: the unwinding drops it
FromImpl(p, T, v, junk) ==
    /\ ~panicked
    /\ scen = "Any"
    /\ Vacant(p)
    /\ IF assert_type_is_impl(T)
       THEN /\ proxies' = [proxies EXCEPT ![p] = LiveSlot(into_repr(T, v, junk), v)]
            /\ res' = [op |-> "from_impl", ty |-> T.name, ok |-> TRUE, p |-> p,
                       val |-> v, steps |-> <<"typeid", "into_repr">>, dtor |-> 0]
            /\ UNCHANGED panicked
       ELSE /\ panicked' = TRUE
            /\ res' = [op |-> "from_impl", ty |-> T.name, ok |-> FALSE, p |-> p,
                       val |-> <<>>, steps |-> <<"typeid", "panic">>, dtor |-> 1]
            /\ UNCHANGED proxies
    /\ UNCHANGED <<env, scen, bound, strong>>

\* proxy.into_impl::<T>()
IntoImpl(p, T, junkv) ==
    /\ ~panicked
    /\ scen = "Any"
    /\ proxies[p].st = "live"
    /\ IF assert_type_is_impl(T)
       THEN /\ proxies' = [proxies EXCEPT ![p] = MovedOut(@)]
            /\ res' = [op |-> "into_impl", ty |-> T.name, ok |-> TRUE, p |-> p,
                       val |-> from_repr(T, into_repr(ProxyType, proxies[p].repr,
                                                      proxies[p].repr), junkv),
                       steps |-> <<"typeid", "into_repr", "from_repr">>]
            /\ UNCHANGED panicked
       ELSE \* the unwinding drops self
            /\ panicked' = TRUE
            /\ proxies' = [proxies EXCEPT ![p] = ProxyDrop(@)]
            /\ res' = [op |-> "into_impl", ty |-> T.name, ok |-> FALSE, p |-> p,
                       val |-> <<>>, steps |-> <<"typeid", "panic">>]
    /\ UNCHANGED <<env, scen, bound, strong>>

\* proxy.downcast_ref::<T>()
DowncastRef(p, T, beyond) ==
    /\ ~panicked
    /\ scen = "Any"
    /\ proxies[p].st = "live"
    /\ IF assert_type_is_impl(T)
       THEN /\ res' = [op |-> "downcast_ref", ty |-> T.name, ok |-> TRUE, p |-> p,
                       val |-> Deref(T, proxies[p].repr, beyond),
                       steps |-> <<"typeid", "cast">>]
            /\ UNCHANGED panicked
       ELSE /\ panicked' = TRUE
            /\ res' = [op |-> "downcast_ref", ty |-> T.name, ok |-> FALSE, p |-> p,
                       val |-> <<>>, steps |-> <<"typeid", "panic">>]
    /\ UNCHANGED <<env, scen, bound, strong, proxies>>

\* *proxy.downcast_mut::<T>() = v
DowncastMut(p, T, v) ==
    /\ ~panicked
    /\ scen = "Any"
    /\ proxies[p].st = "live"
    /\ IF assert_type_is_impl(T)
       THEN /\ proxies' = [proxies EXCEPT ![p].repr = WriteThrough(T, @, v),
                                          ![p].val = v, ![p].written = TRUE]
            /\ res' = [op |-> "downcast_mut", ty |-> T.name, ok |-> TRUE, p |-> p,
                       val |-> v, steps |-> <<"typeid", "cast">>]
            /\ UNCHANGED panicked
       ELSE /\ panicked' = TRUE
            /\ res' = [op |-> "downcast_mut", ty |-> T.name, ok |-> FALSE, p |-> p,
                       val |-> <<>>, steps |-> <<"typeid", "panic">>]
            /\ UNCHANGED proxies
    /\ UNCHANGED <<env, scen, bound, strong>>

\* a proxy variable goes out of scope
DropProxy(p) ==
    /\ ~panicked
    /\ proxies[p].st = "live"
    /\ proxies' = [proxies EXCEPT ![p] = ProxyDrop(@)]
    /\ strong' = strong - HandlesReleased(proxies[p], ProxyDrop(proxies[p]))
    /\ res' = [op |-> "drop", p |-> p]
    /\ UNCHANGED <<env, scen, bound, panicked>>

\* the value returned by into_impl goes out of scope: T's own destructor
DropOwned(p) ==
    /\ ~panicked
    /\ scen = "Any"
    /\ proxies[p].st = "taken"
    /\ proxies' = [proxies EXCEPT ![p].st = "released", ![p].dtor = @ + 1,
                                   ![p].val = <<>>]
    /\ res' = [op |-> "drop_impl", p |-> p]
    /\ UNCHANGED <<env, scen, bound, strong, panicked>>

\* the sizes of the types a binding is attempted with
BindSizes == 0..(MaxSize + 2)

\* #[extern_trait] impl Any for T, with size_of::<T>() = size: the const
\* assertion of the expansion passes or stops the build of the binding
Bind(size) ==
    /\ ~panicked
    /\ scen = "Any"
    /\ res' = [op |-> "bind", size |-> size, ok |-> SizeAssert(size)]
    /\ UNCHANGED <<env, scen, bound, proxies, strong, panicked>>

Init ==
    /\ scen = "Any"
    /\ env = <<>>
    /\ bound \in {TypeOf("AnyImpl", s) : s \in {n \in 0..MaxSize : SizeAssert(n)}}
    /\ proxies = [p \in Slots |-> FreeSlot]
    /\ strong = 0
    /\ res = NoRes
    /\ panicked = FALSE

Next ==
    \/ \E p \in ProxyIds, T \in AnyTypes :
           \E v \in SampleValues(T), junk \in JunkFor(T) : FromImpl(p, T, v, junk)
    \/ \E p \in ProxyIds, T \in AnyTypes :
           \E junkv \in Undefined(T) : IntoImpl(p, T, junkv)
    \/ \E p \in ProxyIds, T \in AnyTypes :
           \E beyond \in Undefined(T) : DowncastRef(p, T, beyond)
    \/ \E p \in ProxyIds, T \in AnyTypes :
           \E v \in SampleValues(T) : DowncastMut(p, T, v)
    \/ \E p \in ProxyIds : DropProxy(p)
    \/ \E p \in ProxyIds : DropOwned(p)
    \/ \E size \in BindSizes : Bind(size)

Spec == Init /\ [][Next]_vars

-----------------------------------------------------------------------------
(* Claims on the conversions and the destructor, under Spec *)

Conversions == {"from_impl", "into_impl", "downcast_ref", "downcast_mut"}

\* C1: from_impl::<T>(v) followed by into_impl::<T>() on the resulting proxy
\* returns a value equal to v, for every bound type T and every value v.
C1_RoundTrip ==
    (res.op = "into_impl" /\ res.ok /\ ~proxies[res.p].written)
        => res.val = proxies[res.p].val

\* The round trip of C1 for the bound types that fit the two words of Repr.
RoundTripWhenFits ==
    (res.op = "into_impl" /\ res.ok /\ FitsRepr(bound))
        => res.val = proxies[res.p].val

\* C2: with a type U that is not the bound type, from_impl, into_impl,
\* downcast_ref and downcast_mut end in the assertion failure; the identity
\* comparison is the first step and no conversion or cast follows it, so no
\* value or reference of type U is produced.
C2_MismatchPanics ==
    res.op \in Conversions =>
        /\ res.steps[1] = "typeid"
        /\ res.ty # bound.name =>
              /\ ~res.ok
              /\ panicked
              /\ res.steps = <<"typeid", "panic">>
              /\ res.val = <<>>
        /\ res.ok => res.ty = bound.name

C2_Witness ==
    /\ panicked
    /\ res.op = "downcast_mut"
    /\ res.ty = "OtherImpl"

\* C3: on a proxy built from a value of the bound type T, downcast_ref::<T>
\* and downcast_mut::<T> never panic, and after writes through
\* downcast_mut::<T> every later downcast_ref::<T>, and a final
\* into_impl::<T>, observes the last value written.
C3_Aliasing ==
    /\ (res.op \in {"downcast_ref", "downcast_mut"} /\ res.ty = bound.name) => res.ok
    /\ (res.op \in {"downcast_ref", "into_impl"} /\ res.ok /\ proxies[res.p].written)
          => res.val = proxies[res.p].val

\* The aliasing of C3 for the bound types that fit the two words of Repr.
AliasingWhenFits ==
    (res.op \in {"downcast_ref", "into_impl"} /\ res.ok /\ FitsRepr(bound))
        => res.val = proxies[res.p].val

\* C4: every proxy that went out of scope has caused exactly one call of the
\* destructor thunk on its storage, and the concrete destructor has run
\* exactly once for its value; no proxy that is still in scope, or that was
\* moved out of, has had the thunk called.
C4_DropOnce ==
    \A p \in Slots :
        /\ proxies[p].st = "dropped" => (proxies[p].thunk = 1 /\ proxies[p].dtor = 1)
        /\ proxies[p].st # "dropped" => proxies[p].thunk = 0
        /\ proxies[p].dtor <= 1

C4_Witness ==
    /\ res.op = "drop"
    /\ proxies[res.p].st = "dropped"
    /\ proxies[res.p].thunk = 1

\* C11: binding an implementation type passes the compile-time size
\* assertion if and only if the type is at most two pointer widths: a type
\* of exactly two is accepted and every larger type is rejected.
C11_SizeAssertion ==
    (scen = "Any" /\ res.op = "bind") => (res.ok <=> res.size <= ReprWords)

\* What the assertion checks: at most twice the size of Repr.
SizeAssertionTwiceRepr ==
    (scen = "Any" /\ res.op = "bind") => (res.ok <=> res.size <= 2 * ReprWords)

-----------------------------------------------------------------------------
(* Normalized signatures and the two functions generated for each method *)

\* MaybeSelf::Self_(kind), kind one of Value, Ref, RefMut, PtrConst, PtrMut
Self_(kind) == [self |-> TRUE, kind |-> kind, ty |-> "Self"]

\* MaybeSelf::Typed(ty)
Typed(ty) == [self |-> FALSE, kind |-> "Typed", ty |-> ty]

\* output: None
None == [self |-> FALSE, kind |-> "None", ty |-> "()"]

\* abi: None, or the calling convention the method is declared with
VerifiedSignature(ident, inputs, output) ==
    [abi |-> "None", ident |-> ident, inputs |-> inputs, output |-> output]

\* MaybeSelf::to_type: the self kind around elem, or the type as written
to_type(arg, elem) == [ctor |-> arg.kind, elem |-> IF arg.self THEN elem ELSE arg.ty]

\* format_ident!("self") is <<"self", 0>>, format_ident!("_{}", i) is <<"_", i>>
arg_names_Same(sig) == [i \in 1..Len(sig.inputs) |-> <<"_", 0>>]

\* every parameter of a Self type named self
arg_names_SelfAnywhere(sig) ==
    [i \in 1..Len(sig.inputs) |->
        IF sig.inputs[i].self THEN <<"self", 0>> ELSE <<"_", i - 1>>]

arg_names(sig) ==
    [i \in 1..Len(sig.inputs) |->
        IF sig.inputs[i].self /\ i - 1 = 0 THEN <<"self", 0>> ELSE <<"_", i - 1>>]

arg_names_no_self(sig) == [i \in 1..Len(sig.inputs) |-> <<"_", i - 1>>]

arg_types(sig, self_type) ==
    [i \in 1..Len(sig.inputs) |-> to_type(sig.inputs[i], self_type)]

return_type(sig, self_type) == to_type(sig.output, self_type)

\* any Self in the return type, by value or behind a reference or pointer
is_return_self_value_AnySelf(sig) == sig.output.self

is_return_self_value(sig) == sig.output.self /\ sig.output.kind = "Value"

\* the consumer's stub: abi fn ident(params: types) -> output { ident(passes) }
\* around the import of the method's symbol in an extern "Rust" block
generate_proxy_impl(sig) ==
    [ident |-> sig.ident,
     abi |-> sig.abi,
     link_abi |-> "Rust",
     params |-> arg_names(sig),
     types |-> arg_types(sig, "Proxy"),
     passes |-> arg_names(sig),
     cast_output |-> FALSE,
     output |-> return_type(sig, "Proxy")]

\* the definition declared with the abi of the method
generate_macro_rules_WithAbi(sig) ==
    [ident |-> sig.ident,
     abi |-> sig.abi,
     params |-> arg_names_no_self(sig),
     types |-> arg_types(sig, "$ty"),
     passes |-> arg_names_no_self(sig),
     cast_output |-> is_return_self_value(sig),
     output |-> IF is_return_self_value(sig)
                THEN return_type(sig, "Repr")
                ELSE return_type(sig, "$ty")]

\* the producer's definition under the same symbol, with no abi written:
\* fn ident(params: types) -> output { cast_output(<$ty as Trait>::ident(passes)) }
generate_macro_rules(sig) ==
    [ident |-> sig.ident,
     abi |-> "None",
     params |-> arg_names_no_self(sig),
     types |-> arg_types(sig, "$ty"),
     passes |-> arg_names_no_self(sig),
     cast_output |-> is_return_self_value(sig),
     output |-> IF is_return_self_value(sig)
                THEN return_type(sig, "Repr")
                ELSE return_type(sig, "$ty")]

-----------------------------------------------------------------------------
(* A call through the link boundary.  Every argument is the sequence of    *)
(* words it occupies: a proxy by value its two words, a reference the      *)
(* address of the storage, a scalar one word.  The caller lays the         *)
(* arguments out by the types of its declaration, the callee takes them by *)
(* the types of its definition.                                            *)

AddrOf(p) == 0 - p

SlotAt(addr) == 0 - addr

\* the integer registers a by-value Rust-ABI argument of this type takes
Registers(ty) ==
    IF ty.ctor = "Value"
    THEN IF ty.elem = "$ty"
         THEN (IF bound.size <= ReprWords THEN bound.size ELSE 1)
         ELSE ReprWords
    ELSE 1

\* the variable `name` of a function whose parameters are bound to actuals
Lookup(params, actuals, name) ==
    actuals[CHOOSE i \in 1..Len(params) : params[i] = name]

\* the argument list of the call in the function's body
Passed(fn, actuals) ==
    [i \in 1..Len(fn.passes) |-> Lookup(fn.params, actuals, fn.passes[i])]

RECURSIVE Flatten(_)
Flatten(vals) == IF vals = <<>> THEN <<>> ELSE Head(vals) \o Flatten(Tail(vals))

RECURSIVE Offset(_, _)
Offset(types, i) ==
    IF i <= 1 THEN 0 ELSE Offset(types, i - 1) + Registers(types[i - 1])

\* the callee's parameters, read from the registers the caller filled; a
\* register the caller did not fill holds whatever was there
Receive(types, regs, junk) ==
    [i \in 1..Len(types) |->
        [k \in 1..Registers(types[i]) |->
            LET r == Offset(types, i) + k
            IN  IF r <= Len(regs) THEN regs[r] ELSE junk[((r - 1) % ReprWords) + 1]]]

\* what the bound implementation's method receives when the stub of sig is
\* called with actuals
Call(sig, actuals, junk) ==
    LET stub == generate_proxy_impl(sig)
        def == generate_macro_rules(sig)
    IN  Passed(def, Receive(def.types, Flatten(Passed(stub, actuals)), junk))

\* what the stub's caller gets back for the method's result
Return(sig, ret, junk) ==
    IF generate_macro_rules(sig).cast_output THEN into_repr(bound, ret, junk) ELSE ret

\* the value behind a reference to the storage of a proxy
Pointee(addr) == from_repr(bound, proxies[SlotAt(addr)].repr, <<>>)

-----------------------------------------------------------------------------
(* The interface Atomic of tests/atomic.rs, bound to AtomicImpl(AtomicI32) *)

AtomicImpl == TypeOf("AtomicImpl", 1)

AtomicValues == {0, 42, 100}

Atomic_new == VerifiedSignature("new", <<Typed("i32")>>, Self_("Value"))
Atomic_get == VerifiedSignature("get", <<Self_("Ref")>>, Typed("i32"))
Atomic_set == VerifiedSignature("set", <<Self_("Ref"), Typed("i32")>>, None)

AtomicImpl_new(v) == <<v>>
AtomicImpl_get(self) == self[1]
AtomicImpl_set(storage, v) == WriteThrough(bound, storage, <<v>>)

\* let p = AtomicProxy::new(v)
AtomicNew(p, v, junk) ==
    /\ scen = "Atomic"
    /\ Vacant(p)
    /\ LET a == Call(Atomic_new, << <<v>> >>, junk)
           ret == AtomicImpl_new(a[1][1])
       IN  /\ proxies' = [proxies EXCEPT
                             ![p] = LiveSlot(Return(Atomic_new, ret, junk), <<v>>)]
           /\ res' = [op |-> "new", p |-> p, args |-> <<v>>, val |-> ret]
    /\ UNCHANGED <<env, scen, bound, strong, panicked>>

\* p.get()
AtomicGet(p, junk) ==
    /\ scen = "Atomic"
    /\ proxies[p].st = "live"
    /\ LET a == Call(Atomic_get, << <<AddrOf(p)>> >>, junk)
           ret == AtomicImpl_get(Pointee(a[1][1]))
       IN  res' = [op |-> "get", p |-> p, args |-> <<>>,
                   val |-> Return(Atomic_get, ret, junk)]
    /\ UNCHANGED <<env, scen, bound, proxies, strong, panicked>>

\* p.set(v)
AtomicSet(p, v, junk) ==
    /\ scen = "Atomic"
    /\ proxies[p].st = "live"
    /\ LET a == Call(Atomic_set, << <<AddrOf(p)>>, <<v>> >>, junk)
           at == SlotAt(a[1][1])
       IN  /\ proxies' = [proxies EXCEPT ![p].val = <<v>>,
                                         ![at].repr = AtomicImpl_set(@, a[2][1])]
           /\ res' = [op |-> "set", p |-> p, args |-> <<v>>, val |-> <<>>]
    /\ UNCHANGED <<env, scen, bound, strong, panicked>>

-----------------------------------------------------------------------------
(* The interface Static of tests/static.rs, bound to the unit RemoteImpl   *)

RemoteImpl == TypeOf("RemoteImpl", 0)

MaxArg == 3

StaticArgs == 0..MaxArg

Static_add == VerifiedSignature("add", <<Typed("i32"), Typed("i32")>>, Typed("i32"))
Static_sub == VerifiedSignature("sub", <<Typed("i32"), Typed("i32")>>, Typed("i32"))

RemoteImpl_add(a, b) == a + b
RemoteImpl_sub(a, b) == a - b

\* StaticImpl::add(a, b)
StaticAdd(a, b, junk) ==
    /\ scen = "Static"
    /\ LET x == Call(Static_add, << <<a>>, <<b>> >>, junk)
       IN  res' = [op |-> "add", p |-> 0, args |-> <<a, b>>,
                   val |-> Return(Static_add, RemoteImpl_add(x[1][1], x[2][1]), junk)]
    /\ UNCHANGED <<env, scen, bound, proxies, strong, panicked>>

\* StaticImpl::sub(a, b)
StaticSub(a, b, junk) ==
    /\ scen = "Static"
    /\ LET x == Call(Static_sub, << <<a>>, <<b>> >>, junk)
       IN  res' = [op |-> "sub", p |-> 0, args |-> <<a, b>>,
                   val |-> Return(Static_sub, RemoteImpl_sub(x[1][1], x[2][1]), junk)]
    /\ UNCHANGED <<env, scen, bound, proxies, strong, panicked>>

-----------------------------------------------------------------------------
(* The interface Counter of tests/by_value.rs, bound to CounterImpl(u64)   *)

CounterImpl == TypeOf("CounterImpl", 1)

CounterSeeds == {1, 5, 7, 10}

MaxCount == 14

Counter_new == VerifiedSignature("new", <<Typed("u64")>>, Self_("Value"))
Counter_get == VerifiedSignature("get", <<Self_("Ref")>>, Typed("u64"))
Counter_increment == VerifiedSignature("increment", <<Self_("Value")>>, Self_("Value"))
Counter_add ==
    VerifiedSignature("add", <<Self_("Value"), Self_("Value")>>, Self_("Value"))

CounterImpl_new(value) == <<value>>
CounterImpl_get(self) == self[1]
CounterImpl_increment(self) == <<self[1] + 1>>
CounterImpl_add(self, other) == <<self[1] + other[1]>>

\* the concrete value a live proxy stands for
Concrete(p) == from_repr(bound, proxies[p].repr, <<>>)

\* let p = CounterProxy::new(v)
CounterNew(p, v, junk) ==
    /\ scen = "Counter"
    /\ Vacant(p)
    /\ LET a == Call(Counter_new, << <<v>> >>, junk)
           ret == CounterImpl_new(a[1][1])
       IN  /\ proxies' = [proxies EXCEPT
                             ![p] = LiveSlot(Return(Counter_new, ret, junk), ret)]
           /\ res' = [op |-> "new", p |-> p, val |-> ret[1], want |-> v]
    /\ UNCHANGED <<env, scen, bound, strong, panicked>>

\* p.get()
CounterGet(p, junk) ==
    /\ scen = "Counter"
    /\ proxies[p].st = "live"
    /\ LET a == Call(Counter_get, << <<AddrOf(p)>> >>, junk)
           ret == CounterImpl_get(Pointee(a[1][1]))
       IN  res' = [op |-> "get", p |-> p, val |-> Return(Counter_get, ret, junk),
                   want |-> CounterImpl_get(Concrete(p))]
    /\ UNCHANGED <<env, scen, bound, proxies, strong, panicked>>

\* let q = p.increment(): p is moved into the call.  moved: the proxies
\* given by value; passed: the concrete values they stood for; received:
\* the values the implementation got, owns and destroys
CounterIncrement(p, q, junk) ==
    /\ scen = "Counter"
    /\ proxies[p].st = "live"
    /\ q = p \/ Vacant(q)
    /\ LET a == Call(Counter_increment, <<proxies[p].repr>>, junk)
           ret == CounterImpl_increment(a[1])
           want == CounterImpl_increment(Concrete(p))
       IN  /\ ret[1] <= MaxCount
           /\ want[1] <= MaxCount
           /\ proxies' = [s \in Slots |->
                   IF s = q THEN LiveSlot(Return(Counter_increment, ret, junk), ret)
                   ELSE IF s = p THEN [proxies[s] EXCEPT !.st = "passed",
                                           !.repr = <<0, 0>>, !.val = <<>>]
                   ELSE proxies[s]]
           /\ res' = [op |-> "increment", p |-> q, val |-> ret[1], want |-> want[1],
                      moved |-> <<p>>, passed |-> <<Concrete(p)>>,
                      received |-> <<a[1]>>]
    /\ UNCHANGED <<env, scen, bound, strong, panicked>>

\* let r = p.add(q): p and q are moved into the call
CounterAdd(p, q, r, junk) ==
    /\ scen = "Counter"
    /\ p # q
    /\ proxies[p].st = "live"
    /\ proxies[q].st = "live"
    /\ r \in {p, q} \/ Vacant(r)
    /\ LET a == Call(Counter_add, <<proxies[p].repr, proxies[q].repr>>, junk)
           ret == CounterImpl_add(a[1], a[2])
           want == CounterImpl_add(Concrete(p), Concrete(q))
       IN  /\ ret[1] <= MaxCount
           /\ want[1] <= MaxCount
           /\ proxies' = [s \in Slots |->
                   IF s = r THEN LiveSlot(Return(Counter_add, ret, junk), ret)
                   ELSE IF s \in {p, q} THEN [proxies[s] EXCEPT !.st = "passed",
                                                 !.repr = <<0, 0>>, !.val = <<>>]
                   ELSE proxies[s]]
           /\ res' = [op |-> "add", p |-> r, val |-> ret[1], want |-> want[1],
                      moved |-> <<p, q>>, passed |-> <<Concrete(p), Concrete(q)>>,
                      received |-> <<a[1], a[2]>>]
    /\ UNCHANGED <<env, scen, bound, strong, panicked>>

-----------------------------------------------------------------------------
(* The interface Resource of tests/arc.rs, bound to                        *)
(* ActualResource(Arc<String>): one word, the address of the shared        *)
(* allocation, whose strong count is the variable strong (0 until GLOBAL   *)
(* is first used).                                                         *)

ActualResource == TypeOf("ActualResource", 1)

ArcAddr == 1

Hello == "Hello, world!"

Resource_new == VerifiedSignature("new", <<>>, Self_("Value"))
Resource_count == VerifiedSignature("count", <<Self_("Ref")>>, Typed("usize"))

\* the methods of the relayed capabilities Default, Clone, AsRef<str>
Default_default == VerifiedSignature("default", <<>>, Self_("Value"))
Clone_clone == VerifiedSignature("clone", <<Self_("Ref")>>, Self_("Value"))
AsRef_as_ref == VerifiedSignature("as_ref", <<Self_("Ref")>>, Typed("&str"))

\* Arc::clone: one more handle on the allocation
Arc_clone(count) == count + 1

\* LazyLock::force(&GLOBAL): the original handle
GLOBAL(count) == IF count = 0 THEN 1 ELSE count

\* Arc::strong_count; the only allocation is the one at ArcAddr
Arc_strong_count(handle) == IF handle = ArcAddr THEN strong ELSE 0

ActualResource_new == [ret |-> <<ArcAddr>>, strong |-> Arc_clone(GLOBAL(strong))]
ActualResource_default == ActualResource_new
ActualResource_clone(self) == [ret |-> <<self[1]>>, strong |-> Arc_clone(strong)]
ActualResource_count(self) == Arc_strong_count(self[1])
ActualResource_as_ref(self) == IF self[1] = ArcAddr THEN Hello ELSE ""

\* let p = ResourceProxy::new()
ResourceNew(p, junk) ==
    /\ scen = "Resource"
    /\ Vacant(p)
    /\ LET a == Call(Resource_new, <<>>, junk)
           made == ActualResource_new
       IN  /\ proxies' = [proxies EXCEPT
                  ![p] = LiveSlot(Return(Resource_new, made.ret, junk), made.ret)]
           /\ strong' = made.strong
           /\ res' = [op |-> "new", p |-> p, val |-> made.ret]
    /\ UNCHANGED <<env, scen, bound, panicked>>

\* let p = ResourceProxy::default()
ResourceDefault(p, junk) ==
    /\ scen = "Resource"
    /\ Vacant(p)
    /\ LET a == Call(Default_default, <<>>, junk)
           made == ActualResource_default
       IN  /\ proxies' = [proxies EXCEPT
                  ![p] = LiveSlot(Return(Default_default, made.ret, junk), made.ret)]
           /\ strong' = made.strong
           /\ res' = [op |-> "default", p |-> p, val |-> made.ret]
    /\ UNCHANGED <<env, scen, bound, panicked>>

\* let q = p.clone()
ResourceClone(p, q, junk) ==
    /\ scen = "Resource"
    /\ proxies[p].st = "live"
    /\ Vacant(q)
    /\ LET a == Call(Clone_clone, << <<AddrOf(p)>> >>, junk)
           made == ActualResource_clone(Pointee(a[1][1]))
       IN  /\ proxies' = [proxies EXCEPT
                  ![q] = LiveSlot(Return(Clone_clone, made.ret, junk), made.ret)]
           /\ strong' = made.strong
           /\ res' = [op |-> "clone", p |-> q, val |-> made.ret]
    /\ UNCHANGED <<env, scen, bound, panicked>>

\* p.count()
ResourceCount(p, junk) ==
    /\ scen = "Resource"
    /\ proxies[p].st = "live"
    /\ LET a == Call(Resource_count, << <<AddrOf(p)>> >>, junk)
           ret == ActualResource_count(Pointee(a[1][1]))
       IN  res' = [op |-> "count", p |-> p, val |-> Return(Resource_count, ret, junk)]
    /\ UNCHANGED <<env, scen, bound, proxies, strong, panicked>>

\* p.as_ref()
ResourceAsRef(p, junk) ==
    /\ scen = "Resource"
    /\ proxies[p].st = "live"
    /\ LET a == Call(AsRef_as_ref, << <<AddrOf(p)>> >>, junk)
           ret == ActualResource_as_ref(Pointee(a[1][1]))
       IN  res' = [op |-> "as_ref", p |-> p, val |-> Return(AsRef_as_ref, ret, junk)]
    /\ UNCHANGED <<env, scen, bound, proxies, strong, panicked>>

-----------------------------------------------------------------------------
(* The forwarded calls of the four test interfaces *)

Interfaces == {"Atomic", "Static", "Counter", "Resource"}

BoundOf(interface) ==
    CASE interface = "Atomic" -> AtomicImpl
      [] interface = "Static" -> RemoteImpl
      [] interface = "Counter" -> CounterImpl
      [] interface = "Resource" -> ActualResource

InitForward ==
    /\ scen \in Interfaces
    /\ env = <<>>
    /\ bound = BoundOf(scen)
    /\ proxies = [p \in Slots |-> FreeSlot]
    /\ strong = 0
    /\ res = NoRes
    /\ panicked = FALSE

NextForward ==
    \/ \E p \in Slots, v \in AtomicValues, junk \in JunkFor(bound) : AtomicNew(p, v, junk)
    \/ \E p \in Slots, junk \in JunkFor(bound) : AtomicGet(p, junk)
    \/ \E p \in Slots, v \in AtomicValues, junk \in JunkFor(bound) : AtomicSet(p, v, junk)
    \/ \E a \in StaticArgs, b \in StaticArgs, junk \in JunkFor(bound) : StaticAdd(a, b, junk)
    \/ \E a \in StaticArgs, b \in StaticArgs, junk \in JunkFor(bound) : StaticSub(a, b, junk)
    \/ \E p \in Slots, v \in CounterSeeds, junk \in JunkFor(bound) : CounterNew(p, v, junk)
    \/ \E p \in Slots, junk \in JunkFor(bound) : CounterGet(p, junk)
    \/ \E p \in Slots, q \in Slots, junk \in JunkFor(bound) : CounterIncrement(p, q, junk)
    \/ \E p \in Slots, q \in Slots, r \in Slots, junk \in JunkFor(bound) :
           CounterAdd(p, q, r, junk)
    \/ \E p \in Slots, junk \in JunkFor(bound) : ResourceNew(p, junk)
    \/ \E p \in Slots, junk \in JunkFor(bound) : ResourceDefault(p, junk)
    \/ \E p \in Slots, q \in Slots, junk \in JunkFor(bound) : ResourceClone(p, q, junk)
    \/ \E p \in Slots, junk \in JunkFor(bound) : ResourceCount(p, junk)
    \/ \E p \in Slots, junk \in JunkFor(bound) : ResourceAsRef(p, junk)
    \/ \E p \in Slots : DropProxy(p)

SpecForward == InitForward /\ [][NextForward]_vars

-----------------------------------------------------------------------------
(* Claims on the forwarded calls, under SpecForward *)

Live == {p \in Slots : proxies[p].st = "live"}

\* C5: for the Arc-backed resource, every count() returns the true strong
\* count of the handle, one for the original handle plus one per live proxy
\* (created by new, default or clone and not yet dropped), and as_ref()
\* returns the string the implementation holds.
C5_ResourceCount ==
    scen = "Resource" =>
        /\ res.op = "count" => (res.val = strong /\ res.val = 1 + Cardinality(Live))
        /\ res.op = "as_ref" => res.val = Hello
        /\ strong # 0 => strong = 1 + Cardinality(Live)

\* count() is back at 2 once the second proxy has been dropped
C5_Witness ==
    /\ scen = "Resource"
    /\ res.op = "count"
    /\ res.val = 2
    /\ \E p \in Slots : proxies[p].st = "dropped"

\* count() is 3 while two proxies live
C5_WitnessThree ==
    /\ scen = "Resource"
    /\ res.op = "count"
    /\ res.val = 3
    /\ Cardinality(Live) = 2

\* C6: a forwarded method hands the supplied arguments, unchanged and in
\* declared order, to the bound implementation and returns its result
\* unchanged: add(a, b) returns a + b and sub(a, b) returns a - b, and get()
\* returns the value supplied to new or to the latest set on that proxy.
C6_Forwarding ==
    /\ (scen = "Static" /\ res.op = "add") => res.val = res.args[1] + res.args[2]
    /\ (scen = "Static" /\ res.op = "sub") => res.val = res.args[1] - res.args[2]
    /\ (scen = "Atomic" /\ res.op = "get") => res.val = proxies[res.p].val[1]
    /\ (scen = "Atomic" /\ res.op = "new") => res.val = res.args

C6_Witness ==
    /\ scen = "Static"
    /\ res.op = "sub"
    /\ res.args = <<3, 2>>
    /\ res.val = 1

C6_WitnessAtomic ==
    /\ scen = "Atomic"
    /\ res.op = "get"
    /\ res.val = 100
    /\ \E p \in Slots : p # res.p /\ proxies[p].st = "live" /\ proxies[p].val = <<42>>

\* C7: a chain of by-value calls on the proxy yields the result of the same
\* chain on the concrete type: the counter returned by increment or add
\* holds what CounterImpl's method returns for the values of the operands.
C7_ByValueChain ==
    (scen = "Counter" /\ res.op \in {"new", "get", "increment", "add"})
        => res.val = res.want

\* The by-value receiver alone: new, get and increment agree with CounterImpl.
ByValueReceiver ==
    (scen = "Counter" /\ res.op \in {"new", "get", "increment"}) => res.val = res.want

-----------------------------------------------------------------------------
(* The symbol deriver.  A string is the sequence of its characters, so     *)
(* that two symbols are equal exactly when their texts are.                *)


\* sample texts of the environment of a build: package names, versions, a
\* crate name with a quote and a backslash in it
Sample ==
    [pkg_a |-> <<"a">>,
     pkg_a_b |-> <<"a", "_", "b">>,
     ver_c |-> <<"c">>,
     ver_b_c |-> <<"b", "_", "c">>,
     crate_x |-> <<"x", "\"", "\\">>]

\* the name of the trait, the idents of members, the token texts of the
\* supertrait paths and the separator between path and method
Name ==
    [Resource |-> <<"R", "e", "s", "o", "u", "r", "c", "e">>,
     get |-> <<"g", "e", "t">>,
     drop |-> <<"d", "r", "o", "p">>,
     typeid |-> <<"t", "y", "p", "e", "i", "d">>,
     clone |-> <<"c", "l", "o", "n", "e">>,
     as_ref |-> <<"a", "s", "_", "r", "e", "f">>,
     Clone |-> <<"C", "l", "o", "n", "e">>,
     AsRef |-> <<"A", "s", "R", "e", "f", " ", "<", " ", "s", "t", "r", " ", ">">>,
     Send |-> <<"S", "e", "n", "d">>,
     Sync |-> <<"S", "y", "n", "c">>,
     Sized |-> <<"S", "i", "z", "e", "d">>,
     Unpin |-> <<"U", "n", "p", "i", "n">>,
     Copy |-> <<"C", "o", "p", "y">>,
     Debug |-> <<"D", "e", "b", "u", "g">>,
     Default |-> <<"D", "e", "f", "a", "u", "l", "t">>,
     AsMut |-> <<"A", "s", "M", "u", "t", " ", "<", " ", "s", "t", "r", " ", ">">>,
     fmt |-> <<"f", "m", "t">>,
     default |-> <<"d", "e", "f", "a", "u", "l", "t">>,
     as_mut |-> <<"a", "s", "_", "m", "u", "t">>,
     Display |-> <<"D", "i", "s", "p", "l", "a", "y">>,
     core |-> <<"c", "o", "r", "e">>,
     marker |-> <<"m", "a", "r", "k", "e", "r">>,
     AsRef_bare |-> <<"A", "s", "R", "e", "f">>,
     AsRef_hr |-> <<"A", "s", "R", "e", "f", " ", "<", " ", "&", " ", "'", "a", " ", "s", "t", "r", " ", ">">>,
     Fn |-> <<"F", "n", " ", "(", ")">>,
     sep |-> <<":", ":">>]

\* the fixed texts of the deriver: the version of the scheme, the text put
\* for a variable that is not set, and the text of #[derive(Debug)] on
\* Symbol before each field and at the end
Fmt ==
    [v0 |-> <<"v", "0">>,
     unknown |-> <<"<", "u", "n", "k", "n", "o", "w", "n", ">">>,
     open |->
        <<"S", "y", "m", "b", "o", "l", " ", "{", " ", "e", "x", "t",
          "e", "r", "n", "_", "t", "r", "a", "i", "t", ":", " ">>,
     package |->
        <<",", " ", "p", "a", "c", "k", "a", "g", "e", ":", " ">>,
     version |->
        <<",", " ", "v", "e", "r", "s", "i", "o", "n", ":", " ">>,
     crate_name |->
        <<",", " ", "c", "r", "a", "t", "e", "_", "n", "a", "m", "e",
          ":", " ">>,
     package_disambiguator |->
        <<",", " ", "p", "a", "c", "k", "a", "g", "e", "_", "d", "i",
          "s", "a", "m", "b", "i", "g", "u", "a", "t", "o", "r", ":",
          " ">>,
     trait_name |->
        <<",", " ", "t", "r", "a", "i", "t", "_", "n", "a", "m", "e",
          ":", " ">>,
     local_disambiguator |->
        <<",", " ", "l", "o", "c", "a", "l", "_", "d", "i", "s", "a",
          "m", "b", "i", "g", "u", "a", "t", "o", "r", ":", " ">>,
     name |->
        <<",", " ", "n", "a", "m", "e", ":", " ">>,
     close |->
        <<" ", "}">>]


\* std::env::var: the variable is set to a text, or is not present
Var(value) == [set |-> TRUE, value |-> value]
NotPresent == [set |-> FALSE]

\* the value, or the empty text where the variable is not set
unwrap_or_Empty(v, default) == IF v.set THEN v.value ELSE <<>>

unwrap_or(v, default) == IF v.set THEN v.value ELSE default

\* as_deref().unwrap_or_default() of a path; paths and spans are only hashed
unwrap_or_default(v) == IF v.set THEN v.value ELSE ""

\* DefaultHasher over the texts that occur: a fixed function into u64, under
\* which two of the manifest paths collide
hash(string) ==
    CASE string = "" -> 3
      [] string = "/a/Cargo.toml" -> 7
      [] string = "/b/Cargo.toml" -> 71
      [] string = "/c/Cargo.toml" -> 7
      [] string = "#0 bytes(10..40)" -> 1
      [] string = "#0 bytes(50..80)" -> 17

\* hash(&format!("{:?}", Span::call_site()))
crate_local_disambiguator(call_site) == hash(call_site)

\* Symbol::new(trait_name) in the environment e of the macro invocation
Symbol_new(e, trait_name) ==
    [extern_trait |-> Fmt.v0,
     package |-> unwrap_or(e.CARGO_PKG_NAME, Fmt.unknown),
     version |-> unwrap_or(e.CARGO_PKG_VERSION, Fmt.unknown),
     crate_name |-> unwrap_or(e.CARGO_CRATE_NAME, Fmt.unknown),
     package_disambiguator |-> hash(unwrap_or_default(e.CARGO_MANIFEST_PATH)),
     trait_name |-> trait_name,
     local_disambiguator |-> crate_local_disambiguator(e.call_site),
     name |-> <<>>]

with_name(sym, name) == [sym EXCEPT !.name = name]

\* <str as Debug>::fmt: the text between quotes, quote and backslash escaped
RECURSIVE Escape(_)
Escape(s) ==
    IF s = <<>> THEN <<>>
    ELSE (IF Head(s) \in {"\"", "\\"} THEN <<"\\", Head(s)>> ELSE <<Head(s)>>)
         \o Escape(Tail(s))

DebugStr(s) == <<"\"">> \o Escape(s) \o <<"\"">>

Digits == <<"0", "1", "2", "3", "4", "5", "6", "7", "8", "9">>

\* <u64 as Debug>::fmt: decimal
RECURSIVE DebugU64(_)
DebugU64(n) ==
    IF n < 10 THEN <<Digits[n + 1]>> ELSE DebugU64(n \div 10) \o <<Digits[(n % 10) + 1]>>

\* the older scheme: the texts joined by underscores, no disambiguators
symbol_prefix(sym) ==
    <<"_", "_", "e", "x", "t", "e", "r", "n", "_", "t", "r", "a", "i", "t", "_">>
        \o sym.package \o <<"_">> \o sym.version \o <<"_">>
        \o sym.crate_name \o <<"_">> \o sym.trait_name \o <<"_">> \o sym.name

\* format!("{:?}", sym) with #[derive(Debug)]
DebugSymbol(sym) ==
    Fmt.open \o DebugStr(sym.extern_trait)
        \o Fmt.package \o DebugStr(sym.package)
        \o Fmt.version \o DebugStr(sym.version)
        \o Fmt.crate_name \o DebugStr(sym.crate_name)
        \o Fmt.package_disambiguator \o DebugU64(sym.package_disambiguator)
        \o Fmt.trait_name \o DebugStr(sym.trait_name)
        \o Fmt.local_disambiguator \o DebugU64(sym.local_disambiguator)
        \o Fmt.name \o DebugStr(sym.name)
        \o Fmt.close

\* format!("{:?}", sym.clone().with_name(name))
export_name(sym, name) == DebugSymbol(with_name(sym, name))

-----------------------------------------------------------------------------
(* Two generation sites declaring an interface of the same name *)

Sites == {1, 2}

Environments ==
    [CARGO_PKG_NAME : {NotPresent, Var(Sample.pkg_a), Var(Sample.pkg_a_b)},
     CARGO_PKG_VERSION : {NotPresent, Var(Sample.ver_c), Var(Sample.ver_b_c)},
     CARGO_CRATE_NAME : {NotPresent, Var(Sample.crate_x)},
     CARGO_MANIFEST_PATH : {NotPresent, Var("/a/Cargo.toml"), Var("/b/Cargo.toml"),
                            Var("/c/Cargo.toml")},
     call_site : {"#0 bytes(10..40)", "#0 bytes(50..80)"}]

NoEnvironment ==
    [CARGO_PKG_NAME |-> NotPresent, CARGO_PKG_VERSION |-> NotPresent,
     CARGO_CRATE_NAME |-> NotPresent, CARGO_MANIFEST_PATH |-> NotPresent,
     call_site |-> "#0 bytes(10..40)"]

MemberNames == {Name.get, Name.drop, Name.Clone \o Name.sep \o Name.clone}

\* both sites derive the symbol of the member `name` of the interface
Derive(name) ==
    /\ scen = "Sites"
    /\ res' = [op |-> "derive", name |-> name,
               syms |-> [s \in Sites |->
                            export_name(Symbol_new(env[s], Name.Resource), name)]]
    /\ UNCHANGED <<env, scen, bound, proxies, strong, panicked>>

InitSym ==
    /\ scen = "Sites"
    /\ env \in [Sites -> Environments]
    /\ bound = ActualResource
    /\ proxies = [p \in Slots |-> FreeSlot]
    /\ strong = 0
    /\ res = NoRes
    /\ panicked = FALSE

NextSym == \E name \in MemberNames : Derive(name)

SpecSym == InitSym /\ [][NextSym]_vars

-----------------------------------------------------------------------------
(* One generation site expanding an interface into the members of a bridge *)

MethodIdents == <<Name.get, Name.drop, Name.typeid>>

\* the supertraits of the catalog that have a method, with that method
Capabilities == <<[path |-> Name.Clone, ident |-> Name.clone],
                  [path |-> Name.AsRef, ident |-> Name.as_ref]>>

\* a trait declaration: the methods and supertraits it lists, in order
Declarations ==
    {[methods |-> SelectSeq(MethodIdents, LAMBDA m : m \in ms),
      supertraits |-> SelectSeq(Capabilities, LAMBDA c : c \in cs)] :
        ms \in SUBSET {MethodIdents[i] : i \in 1..Len(MethodIdents)},
        cs \in SUBSET {Capabilities[i] : i \in 1..Len(Capabilities)}}

\* decl::expand: the symbol of every member, the methods in the order of
\* the trait, then the methods of the relayed supertraits, then the drop
\* thunk and the type id
expand(e, input) ==
    LET sym == Symbol_new(e, Name.Resource)
    IN  [i \in 1..Len(input.methods) |->
            [member |-> "method", ident |-> input.methods[i],
             export_name |-> export_name(sym, input.methods[i])]]
        \o [i \in 1..Len(input.supertraits) |->
            [member |-> "supertrait", ident |-> input.supertraits[i].ident,
             export_name |-> export_name(sym, input.supertraits[i].path \o Name.sep
                                                \o input.supertraits[i].ident)]]
        \o <<[member |-> "drop", ident |-> Name.drop,
              export_name |-> export_name(sym, Name.drop)],
             [member |-> "typeid", ident |-> Name.typeid,
              export_name |-> export_name(sym, Name.typeid)]>>

\* #[extern_trait(Proxy)] on the declaration input at site s
Expand(s, input) ==
    /\ scen = "Bridge"
    /\ res' = [op |-> "expand", site |-> s, input |-> input,
               members |-> expand(env[s], input)]
    /\ UNCHANGED <<env, scen, bound, proxies, strong, panicked>>

InitBridge ==
    /\ scen = "Bridge"
    /\ env \in {e \in [Sites -> Environments] : e[2] = NoEnvironment}
    /\ bound = ActualResource
    /\ proxies = [p \in Slots |-> FreeSlot]
    /\ strong = 0
    /\ res = NoRes
    /\ panicked = FALSE

NextBridge == \E input \in Declarations : Expand(1, input)

SpecBridge == InitBridge /\ [][NextBridge]_vars

-----------------------------------------------------------------------------
(* Claims on the symbol deriver, under SpecSym and SpecBridge *)

\* the fields of the two sites' symbols that name the site
SiteFields(s) ==
    LET sym == Symbol_new(env[s], Name.Resource)
    IN  <<sym.package, sym.version, sym.crate_name, sym.package_disambiguator,
          sym.local_disambiguator>>

\* C8: two generation sites that declare an interface of the same name and
\* differ in package name, package version, crate name, manifest-path hash
\* or per-site disambiguator derive different symbol strings for the same
\* member name.
C8_SitesDistinct ==
    (scen = "Sites" /\ res.op = "derive" /\ SiteFields(1) # SiteFields(2))
        => res.syms[1] # res.syms[2]

\* the sites differ in the disambiguator alone
C8_Witness ==
    /\ scen = "Sites"
    /\ res.op = "derive"
    /\ env[1].call_site # env[2].call_site
    /\ \A f \in {"CARGO_PKG_NAME", "CARGO_PKG_VERSION", "CARGO_CRATE_NAME",
                 "CARGO_MANIFEST_PATH"} : env[1][f] = env[2][f]
    /\ res.syms[1] # res.syms[2]

\* the sites differ in where the underscore falls between package and version
C8_WitnessUnderscore ==
    /\ scen = "Sites"
    /\ res.op = "derive"
    /\ env[1].CARGO_PKG_NAME = Var(Sample.pkg_a_b) /\ env[1].CARGO_PKG_VERSION = Var(Sample.ver_c)
    /\ env[2].CARGO_PKG_NAME = Var(Sample.pkg_a) /\ env[2].CARGO_PKG_VERSION = Var(Sample.ver_b_c)
    /\ SiteFields(1)[3] = SiteFields(2)[3]
    /\ SiteFields(1)[4] = SiteFields(2)[4]
    /\ SiteFields(1)[5] = SiteFields(2)[5]
    /\ res.syms[1] # res.syms[2]

\* C9: within one bridge the symbols of distinct members are pairwise
\* distinct, whatever the method names are: each interface method, each
\* relayed capability method, the destructor thunk and the type id.
C9_MembersDistinct ==
    (scen = "Bridge" /\ res.op = "expand") =>
        \A i, j \in 1..Len(res.members) :
            i # j => res.members[i].export_name # res.members[j].export_name

\* The members are distinct when no method is called drop or typeid.
MembersDistinctUnlessReserved ==
    (scen = "Bridge" /\ res.op = "expand"
        /\ \A i \in 1..Len(res.input.methods) :
               res.input.methods[i] \notin {Name.drop, Name.typeid}) =>
        \A i, j \in 1..Len(res.members) :
            i # j => res.members[i].export_name # res.members[j].export_name

-----------------------------------------------------------------------------
(* The normalizer: syn types as trees, the search for Self in them, and    *)
(* VerifiedSignature::try_new.                                             *)

MaxDepth == 2

\* a syn::Type: its variant and the types directly inside it
Ty(ctor, elems) == [ctor |-> ctor, elems |-> elems]

\* Self; a path without Self; the path Self::Item
LeafTypes == {Ty("Self", <<>>), Ty("i32", <<>>), Ty("SelfItem", <<>>)}

\* *const T, *mut T, &T, &mut T, [T; 1], [T], (T), (T,), Box<T>, fn(T),
\* dyn Fn(T), impl Into<T>
TypeCtors == {"Ptr", "PtrMut", "Ref", "RefMut", "Array", "Slice", "Paren",
              "Tuple", "Path", "BareFn", "TraitObject", "ImplTrait"}

RECURSIVE TypesUpTo(_)
TypesUpTo(d) ==
    IF d = 0 THEN LeafTypes
    ELSE LET sub == TypesUpTo(d - 1)
         IN  sub \cup {Ty(c, <<t>>) : c \in TypeCtors, t \in sub}

Types == TypesUpTo(MaxDepth)

\* Self occurs somewhere in the text of the type
RECURSIVE MentionsSelf(_)
MentionsSelf(ty) ==
    \/ ty.ctor \in {"Self", "SelfItem"}
    \/ \E i \in 1..Len(ty.elems) : MentionsSelf(ty.elems[i])

\* TypeExt::contains_self: the arms of the match, and false for every
\* other variant
RECURSIVE contains_self(_)
contains_self(ty) ==
    CASE ty.ctor \in {"Array", "Paren", "Ptr", "PtrMut", "Ref", "RefMut", "Slice"}
            -> contains_self(ty.elems[1])
      [] ty.ctor \in {"BareFn", "Tuple"}
            -> \E i \in 1..Len(ty.elems) : contains_self(ty.elems[i])
      [] ty.ctor \in {"Self", "SelfItem"} -> TRUE
      [] ty.ctor = "Path"
            -> \E i \in 1..Len(ty.elems) : contains_self(ty.elems[i])
      [] OTHER -> FALSE

\* TypeExt::self_kind: Some(kind) for Self, a pointer to Self, a reference
\* to Self
self_kind(ty) ==
    IF ty = Ty("Self", <<>>) THEN [some |-> TRUE, kind |-> "Value"]
    ELSE IF ty.ctor \in {"Ptr", "PtrMut"} /\ ty.elems[1] = Ty("Self", <<>>)
         THEN [some |-> TRUE, kind |-> ty.ctor]
    ELSE IF ty.ctor \in {"Ref", "RefMut"} /\ ty.elems[1] = Ty("Self", <<>>)
         THEN [some |-> TRUE, kind |-> ty.ctor]
    ELSE [some |-> FALSE, kind |-> "None"]

Ok(value) == [ok |-> TRUE, value |-> value, err |-> ""]
Err(message) == [ok |-> FALSE, value |-> <<>>, err |-> message]

\* the message, which has Self between backquotes
TooComplex == "#[extern_trait] too complex Self type"

\* the closure of try_new over one parameter or return type
maybe_self(ty) ==
    IF contains_self(ty)
    THEN IF self_kind(ty).some
         THEN Ok(Self_(self_kind(ty).kind))
         ELSE Err(TooComplex)
    ELSE Ok(Typed(ty))

\* a syn::Signature; the first of the inputs is FnArg::Receiver when the
\* signature is written with self, &self or &mut self
Signature(features, ident, inputs, output) ==
    [abi |-> IF "extern C" \in features THEN "C"
             ELSE IF "extern Rust" \in features THEN "Rust" ELSE "None",
     receiver |-> "receiver" \in features,
     constness |-> "const" \in features,
     asyncness |-> "async" \in features,
     generics |-> "generics" \in features,
     where_clause |-> "where" \in features,
     variadic |-> "variadic" \in features,
     ident |-> ident, inputs |-> inputs, output |-> output]

Features == {"const", "async", "generics", "where", "variadic"}

\* ReturnType::Default
Default == Ty("Default", <<>>)

\* try_new without the test for a variadic signature
try_new_NoVariadicCheck(sig) ==
    LET ins == [i \in 1..Len(sig.inputs) |-> maybe_self(sig.inputs[i])]
        bad == {i \in 1..Len(sig.inputs) : ~ins[i].ok}
        out == IF sig.output = Default THEN Ok(None) ELSE maybe_self(sig.output)
    IN  IF sig.constness THEN Err("#[extern_trait] does not support const functions")
        ELSE IF sig.asyncness
             THEN Err("#[extern_trait] does not support async functions")
        ELSE IF sig.generics
             THEN Err("#[extern_trait] does not support generic functions")
        ELSE IF sig.where_clause
             THEN Err("#[extern_trait] does not support where clauses")
        ELSE IF bad # {} THEN ins[CHOOSE i \in bad : \A j \in bad : i <= j]
        ELSE IF ~out.ok THEN out
        ELSE Ok([VerifiedSignature(sig.ident, [i \in 1..Len(ins) |-> ins[i].value],
                                   out.value) EXCEPT !.abi = sig.abi])

\* VerifiedSignature::try_new
try_new(sig) ==
    LET ins == [i \in 1..Len(sig.inputs) |-> maybe_self(sig.inputs[i])]
        bad == {i \in 1..Len(sig.inputs) : ~ins[i].ok}
        out == IF sig.output = Default THEN Ok(None) ELSE maybe_self(sig.output)
    IN  IF sig.constness THEN Err("#[extern_trait] does not support const functions")
        ELSE IF sig.asyncness
             THEN Err("#[extern_trait] does not support async functions")
        ELSE IF sig.generics
             THEN Err("#[extern_trait] does not support generic functions")
        ELSE IF sig.where_clause
             THEN Err("#[extern_trait] does not support where clauses")
        ELSE IF sig.variadic
             THEN Err("#[extern_trait] does not support variadic functions")
        ELSE IF bad # {} THEN ins[CHOOSE i \in bad : \A j \in bad : i <= j]
        ELSE IF ~out.ok THEN out
        ELSE Ok([VerifiedSignature(sig.ident, [i \in 1..Len(ins) |-> ins[i].value],
                                   out.value) EXCEPT !.abi = sig.abi])

\* the items of a trait body: a method with its signature, or another item
\* (an associated const or type); valid records whether the method is one
\* the normalizer is to accept
TraitItem_Fn(sig, valid) == [fn |-> TRUE, ident |-> sig.ident, sig |-> sig, valid |-> valid]
TraitItem_Const(ident) == [fn |-> FALSE, ident |-> ident, sig |-> <<>>, valid |-> FALSE]

OnlyMethods == "#[extern_trait] may only contain methods"

\* what one turn of the loop over input.items adds to impl_content and to
\* macro_content
item_output(t) ==
    IF ~t.fn
    THEN [impl_content |-> <<[kind |-> "error", ident |-> t.ident, text |-> OnlyMethods]>>,
          macro_content |-> <<>>]
    ELSE LET r == try_new(t.sig)
         IN  IF r.ok
             THEN [impl_content |-> <<[kind |-> "stub", ident |-> t.ident,
                                       text |-> generate_proxy_impl(r.value)]>>,
                   macro_content |-> <<[kind |-> "def", ident |-> t.ident,
                                        text |-> generate_macro_rules(r.value)]>>]
             ELSE [impl_content |-> <<[kind |-> "error", ident |-> t.ident,
                                       text |-> r.err]>>,
                   macro_content |-> <<>>]

\* the items up to and including the first one that is not turned into code
UntilError(items) ==
    LET bad == {i \in 1..Len(items) : item_output(items[i]).macro_content = <<>>}
    IN  IF bad = {} THEN items
        ELSE SubSeq(items, 1, CHOOSE i \in bad : \A j \in bad : i <= j)

\* a loop that returns at the first error
method_loop_StopAtError(items) ==
    [impl_content |-> Flatten([i \in 1..Len(UntilError(items)) |->
                                  item_output(items[i]).impl_content]),
     macro_content |-> Flatten([i \in 1..Len(UntilError(items)) |->
                                  item_output(items[i]).macro_content])]

\* for t in &input.items { .. } of decl::expand
method_loop(items) ==
    [impl_content |-> Flatten([i \in 1..Len(items) |-> item_output(items[i]).impl_content]),
     macro_content |-> Flatten([i \in 1..Len(items) |-> item_output(items[i]).macro_content])]

-----------------------------------------------------------------------------
(* The normalizer applied to signatures and to trait bodies *)

Self == Ty("Self", <<>>)
RefSelf == Ty("Ref", <<Self>>)
BoxSelf == Ty("Path", <<Self>>)

\* the types of the parameters of the signatures with several parameters
SigTypes == {Self, RefSelf, Ty("i32", <<>>), BoxSelf}

\* signatures with any of the rejected features and up to two parameters,
\* and plain signatures with one type of any shape as parameter or result
Signatures ==
    {Signature(fs, "f", ins, out) :
        fs \in SUBSET Features,
        ins \in {<<>>} \cup {<<a>> : a \in SigTypes}
                \cup {<<a, b>> : a \in SigTypes, b \in SigTypes},
        out \in SigTypes \cup {Default}}
    \cup {Signature({}, "f", <<ty>>, Default) : ty \in Types}
    \cup {Signature({}, "f", <<>>, ty) : ty \in Types}

\* the signatures of methods: with and without a receiver, with and without
\* an abi, a const one, with up to two parameters, and with a result of any
\* type of one level
MethodSignatures ==
    {Signature(fs, "f", ins, out) :
        fs \in {{}, {"extern C"}, {"extern Rust"}, {"const"}},
        ins \in {<<>>} \cup {<<a>> : a \in SigTypes}
                \cup {<<a, b>> : a \in SigTypes, b \in SigTypes},
        out \in SigTypes \cup {Default}}
    \cup {Signature(fs, "f", <<a>> \o ins, out) :
            fs \in {{"receiver"}, {"receiver", "extern C"}},
            a \in {Self, RefSelf, Ty("RefMut", <<Self>>)},
            ins \in {<<>>} \cup {<<b>> : b \in SigTypes},
            out \in SigTypes \cup {Ty("RefMut", <<Self>>), Ty("Ptr", <<Self>>),
                                   Ty("PtrMut", <<Self>>), Default}}
    \cup {Signature({}, "f", <<>>, ty) : ty \in TypesUpTo(1)}

MaxItems == 3

\* the items a trait body is made of: two methods the normalizer accepts, a
\* const method, a method with Self inside Box, an associated const
ItemKinds ==
    {TraitItem_Fn(Signature({"receiver"}, "get", <<RefSelf>>, Ty("i32", <<>>)), TRUE),
     TraitItem_Fn(Signature({"receiver"}, "set", <<RefSelf, Ty("i32", <<>>)>>, Default),
                  TRUE),
     TraitItem_Fn(Signature({"receiver", "const"}, "bad", <<RefSelf>>, Default), FALSE),
     TraitItem_Fn(Signature({}, "deep", <<BoxSelf>>, Default), FALSE),
     TraitItem_Const("N")}

\* trait bodies: up to MaxItems items with different names
Bodies ==
    UNION {{b \in [1..n -> ItemKinds] : \A i, j \in 1..n : i # j => b[i] # b[j]} :
              n \in 0..MaxItems}

\* VerifiedSignature::try_new(&f.sig), once in a run of the macro
TryNew(sig) ==
    /\ scen = "Normalize"
    /\ res = NoRes
    /\ res' = [op |-> "try_new", sig |-> sig, result |-> try_new(sig)]
    /\ UNCHANGED <<env, scen, bound, proxies, strong, panicked>>

\* the loop of decl::expand over the items of the trait
ExpandItems(items) ==
    /\ scen = "Normalize"
    /\ res = NoRes
    /\ res' = [op |-> "items", items |-> items, out |-> method_loop(items)]
    /\ UNCHANGED <<env, scen, bound, proxies, strong, panicked>>

\* one turn of the loop of decl::expand, for a method with this signature
ExpandMethod(sig) ==
    /\ scen = "Normalize"
    /\ res = NoRes
    /\ res' = [op |-> "method", sig |-> sig, out |-> item_output(TraitItem_Fn(sig, TRUE))]
    /\ UNCHANGED <<env, scen, bound, proxies, strong, panicked>>

\* the type parameter ____0 of the catalog's method templates
Generic0 == Ty("____0", <<>>)

\* the methods of the catalog's entries as to_token_stream prints them: the
\* bare signature with Self for the self type
functions(name) ==
    CASE name = "Debug" ->
            Signature({"receiver"}, "fmt", <<RefSelf, Ty("RefMut", <<Ty("Formatter", <<>>)>>)>>,
                      Ty("Result", <<>>))
      [] name = "Clone" -> Signature({"receiver"}, "clone", <<RefSelf>>, Self)
      [] name = "Default" -> Signature({}, "default", <<>>, Self)
      [] name = "AsRef" ->
            Signature({"receiver"}, "as_ref", <<RefSelf>>, Ty("Ref", <<Generic0>>))
      [] name = "AsMut" ->
            Signature({"receiver"}, "as_mut", <<Ty("RefMut", <<Self>>)>>,
                      Ty("RefMut", <<Generic0>>))

\* the number of type arguments of the entry
generics(name) == IF name \in {"AsRef", "AsMut"} THEN 1 ELSE 0

\* acc.replace(k, v) on the text of a type: every occurrence of the
\* placeholder k becomes the text of the argument v
RECURSIVE replace(_, _, _)
replace(ty, k, v) ==
    IF ty = k THEN v
    ELSE Ty(ty.ctor, [i \in 1..Len(ty.elems) |-> replace(ty.elems[i], k, v)])

\* the fold over replace_map on the text of the signature, parsed again
replace_map(sig, args) ==
    IF args = <<>> THEN sig
    ELSE [sig EXCEPT
            !.inputs = [i \in 1..Len(sig.inputs) |->
                            replace(sig.inputs[i], Generic0, args[1])],
            !.output = replace(sig.output, Generic0, args[1])]

\* the methods of the entry transformed for the arguments of the path: per
\* method, the result of try_new that generate_impl unwraps
transformed(name, args) == <<try_new(replace_map(functions(name), args))>>

\* supertraits::generate_impl for an entry of the catalog that has methods
\* and a path with as many arguments as the entry: the stubs and the
\* definitions, or the panic of unwrap on the first Err
GenerateImpl(name, args) ==
    /\ scen = "Normalize"
    /\ res = NoRes
    /\ Len(args) = generics(name)
    /\ LET t == transformed(name, args)
           ok == \A i \in 1..Len(t) : t[i].ok
       IN  /\ panicked' = ~ok
           /\ res' = [op |-> "generate_impl", name |-> name, args |-> args,
                      result |-> t,
                      impl_content |->
                         IF ok THEN [i \in 1..Len(t) |-> generate_proxy_impl(t[i].value)]
                         ELSE <<>>,
                      macro_content |->
                         IF ok THEN [i \in 1..Len(t) |-> generate_macro_rules(t[i].value)]
                         ELSE <<>>,
                      errors |-> <<>>]
    /\ UNCHANGED <<env, scen, bound, proxies, strong>>

\* the entries of the catalog that have a method, and the arguments of a
\* path: none, or one type of one level
WithMethods == {"Debug", "Clone", "Default", "AsRef", "AsMut"}
PathArgs == {<<>>} \cup {<<ty>> : ty \in TypesUpTo(1)}

InitNormalize ==
    /\ scen = "Normalize"
    /\ env = <<>>
    /\ bound = ActualResource
    /\ proxies = [p \in Slots |-> FreeSlot]
    /\ strong = 0
    /\ res = NoRes
    /\ panicked = FALSE

NextNormalize ==
    \/ \E sig \in Signatures : TryNew(sig)
    \/ \E items \in Bodies : ExpandItems(items)
    \/ \E sig \in MethodSignatures : ExpandMethod(sig)
    \/ \E name \in WithMethods, args \in PathArgs : GenerateImpl(name, args)

SpecNormalize == InitNormalize /\ [][NextNormalize]_vars

-----------------------------------------------------------------------------
(* Claims on the normalizer, under SpecNormalize *)

\* the five shapes in which Self is recognized
Recognized(ty) ==
    ty \in {Self, Ty("Ptr", <<Self>>), Ty("PtrMut", <<Self>>), Ty("Ref", <<Self>>),
            Ty("RefMut", <<Self>>)}

\* the parameter and return types of a signature
TypesOf(sig) ==
    {sig.inputs[i] : i \in 1..Len(sig.inputs)}
        \cup (IF sig.output = Default THEN {} ELSE {sig.output})

NoFeature(sig) ==
    ~(sig.constness \/ sig.asyncness \/ sig.generics \/ sig.where_clause \/ sig.variadic)

\* the idents of the entries of one kind, in order
Idents(content, kind) ==
    LET sel == SelectSeq(content, LAMBDA e : e.kind = kind)
    IN  [i \in 1..Len(sel) |-> sel[i].ident]

\* C12: a method that fails normalization and every non-method item gives
\* exactly a diagnostic and no forwarding code, and every other method of
\* the interface gets its stub and its definition, wherever and however
\* many the bad items are.
C12_BadItemsIsolated ==
    (scen = "Normalize" /\ res.op = "items") =>
        LET valid == SelectSeq(res.items, LAMBDA t : t.valid)
            invalid == SelectSeq(res.items, LAMBDA t : ~t.valid)
            names(s) == [i \in 1..Len(s) |-> s[i].ident]
        IN  /\ Idents(res.out.impl_content, "stub") = names(valid)
            /\ Idents(res.out.macro_content, "def") = names(valid)
            /\ Idents(res.out.impl_content, "error") = names(invalid)
            /\ Len(res.out.impl_content) = Len(res.items)
            /\ Len(res.out.macro_content) = Len(valid)

\* a bad method first, a non-method item in the middle, a good method last
C12_Witness ==
    /\ scen = "Normalize"
    /\ res.op = "items"
    /\ Len(res.items) = 3
    /\ res.items[1].ident = "bad"
    /\ res.items[2].ident = "N"
    /\ res.items[3].ident = "set"
    /\ Idents(res.out.macro_content, "def") = <<"set">>

\* C13: a parameter or return type that mentions Self is accepted only when
\* it is exactly Self, *const Self, *mut Self, &Self or &mut Self; every
\* other type that mentions Self, at any depth and inside any type
\* constructor, is rejected as too complex and never passed through.
C13_SelfShapes ==
    (scen = "Normalize" /\ res.op = "try_new" /\ NoFeature(res.sig)) =>
        IF \E ty \in TypesOf(res.sig) : MentionsSelf(ty) /\ ~Recognized(ty)
        THEN ~res.result.ok /\ res.result.err = TooComplex
        ELSE res.result.ok

\* The shapes are told apart wherever contains_self sees the mention.
SelfShapesWhereSeen ==
    (scen = "Normalize" /\ res.op = "try_new" /\ NoFeature(res.sig)) =>
        IF \E ty \in TypesOf(res.sig) : contains_self(ty) /\ ~Recognized(ty)
        THEN ~res.result.ok /\ res.result.err = TooComplex
        ELSE res.result.ok

\* C14: try_new returns an error for every signature that is const, async,
\* generic, has a where clause or is variadic, and a normalized signature
\* for every signature with none of these whose Self occurrences are all
\* in a recognized shape.
C14_FeaturesRejected ==
    (scen = "Normalize" /\ res.op = "try_new") =>
        /\ ~NoFeature(res.sig) => (~res.result.ok /\ res.result.err # TooComplex)
        /\ (NoFeature(res.sig)
              /\ \A ty \in TypesOf(res.sig) : MentionsSelf(ty) => Recognized(ty))
           => /\ res.result.ok
              /\ res.result.value.ident = res.sig.ident
              /\ Len(res.result.value.inputs) = Len(res.sig.inputs)

\* a variadic signature, otherwise acceptable, is rejected
C14_Witness ==
    /\ scen = "Normalize"
    /\ res.op = "try_new"
    /\ res.sig.variadic
    /\ ~(res.sig.constness \/ res.sig.asyncness \/ res.sig.generics
            \/ res.sig.where_clause)
    /\ res.sig.inputs = <<RefSelf, Self>>
    /\ ~res.result.ok

\* C18: a method with a by-value Self parameter in a position other than
\* the receiver is rejected at normalization with a diagnostic, and no
\* forwarding code is generated for it.
C18_ByValueSelfRejected ==
    (scen = "Normalize" /\ res.op = "try_new"
        /\ \E i \in 2..Len(res.sig.inputs) : res.sig.inputs[i] = Self)
        => ~res.result.ok

-----------------------------------------------------------------------------
(* Claims on missing metadata, under SpecBridge *)

\* the text t occurs in the text s
Occurs(t, s) ==
    \E i \in 1..(Len(s) - Len(t) + 1) : SubSeq(s, i, i + Len(t) - 1) = t

\* the field of the symbol's text that holds the placeholder
Placeholder(label) ==
    label \o <<"\"", "<", "u", "n", "k", "n", "o", "w", "n", ">", "\"">>

\* C19: when the package name, the package version or the crate name is
\* absent at generation time, symbol derivation does not fail: the missing
\* component is replaced by the literal <unknown> (and no other component
\* is), and a symbol is still produced for every member of the interface.
C19_UnknownPlaceholder ==
    (scen = "Bridge" /\ res.op = "expand") =>
        /\ Len(res.members)
              = Len(res.input.methods) + Len(res.input.supertraits) + 2
        /\ \A i \in 1..Len(res.members) :
              LET text == res.members[i].export_name
              IN  /\ (env[res.site].CARGO_PKG_NAME = NotPresent)
                        <=> Occurs(Placeholder(Fmt.package), text)
                  /\ (env[res.site].CARGO_PKG_VERSION = NotPresent)
                        <=> Occurs(Placeholder(Fmt.version), text)
                  /\ (env[res.site].CARGO_CRATE_NAME = NotPresent)
                        <=> Occurs(Placeholder(Fmt.crate_name), text)

\* the version alone is absent, and a method, a supertrait method, the drop
\* thunk and the type id all got their symbols
C19_Witness ==
    /\ scen = "Bridge"
    /\ res.op = "expand"
    /\ env[res.site].CARGO_PKG_NAME # NotPresent
    /\ env[res.site].CARGO_PKG_VERSION = NotPresent
    /\ env[res.site].CARGO_CRATE_NAME # NotPresent
    /\ {res.members[i].member : i \in 1..Len(res.members)}
          = {"method", "supertrait", "drop", "typeid"}
    /\ \A i \in 1..Len(res.members) :
          Occurs(Placeholder(Fmt.version), res.members[i].export_name)

-----------------------------------------------------------------------------
(* The capability relay: the supertraits of the declaration that the      *)
(* catalog knows are implemented for the proxy, and the eligibility marker *)
(* is added to the supertraits of the interface.                           *)

MaxSupertraits == 2

\* SuperTraitInfo of every entry of the catalog, in its order
TRAITS_NoSync ==
    <<[is_unsafe |-> TRUE, name |-> "Send", generics |-> 0, functions |-> <<>>],
      [is_unsafe |-> FALSE, name |-> "Sized", generics |-> 0, functions |-> <<>>],
      [is_unsafe |-> FALSE, name |-> "Unpin", generics |-> 0, functions |-> <<>>],
      [is_unsafe |-> FALSE, name |-> "Copy", generics |-> 0, functions |-> <<>>],
      [is_unsafe |-> FALSE, name |-> "Debug", generics |-> 0,
       functions |-> <<Name.fmt>>],
      [is_unsafe |-> FALSE, name |-> "Clone", generics |-> 0,
       functions |-> <<Name.clone>>],
      [is_unsafe |-> FALSE, name |-> "Default", generics |-> 0,
       functions |-> <<Name.default>>],
      [is_unsafe |-> FALSE, name |-> "AsRef", generics |-> 1,
       functions |-> <<Name.as_ref>>],
      [is_unsafe |-> FALSE, name |-> "AsMut", generics |-> 1,
       functions |-> <<Name.as_mut>>]>>

TRAITS ==
    <<[is_unsafe |-> TRUE, name |-> "Send", generics |-> 0, functions |-> <<>>],
      [is_unsafe |-> TRUE, name |-> "Sync", generics |-> 0, functions |-> <<>>],
      [is_unsafe |-> FALSE, name |-> "Sized", generics |-> 0, functions |-> <<>>],
      [is_unsafe |-> FALSE, name |-> "Unpin", generics |-> 0, functions |-> <<>>],
      [is_unsafe |-> FALSE, name |-> "Copy", generics |-> 0, functions |-> <<>>],
      [is_unsafe |-> FALSE, name |-> "Debug", generics |-> 0,
       functions |-> <<Name.fmt>>],
      [is_unsafe |-> FALSE, name |-> "Clone", generics |-> 0,
       functions |-> <<Name.clone>>],
      [is_unsafe |-> FALSE, name |-> "Default", generics |-> 0,
       functions |-> <<Name.default>>],
      [is_unsafe |-> FALSE, name |-> "AsRef", generics |-> 1,
       functions |-> <<Name.as_ref>>],
      [is_unsafe |-> FALSE, name |-> "AsMut", generics |-> 1,
       functions |-> <<Name.as_mut>>]>>

\* a segment of a path: its ident, its token text with the arguments, the
\* kind of the arguments and their number
PathSegment(ident, tokens, arguments, args) ==
    [ident |-> ident, tokens |-> tokens, arguments |-> arguments, args |-> args]

\* a bound of the supertrait list: a trait bound with its modifier, its
\* for<> binder and its path, or a lifetime
TraitBound(modifier, lifetimes, leading_colon, segments) ==
    [bound |-> "Trait", modifier |-> modifier, lifetimes |-> lifetimes,
     leading_colon |-> leading_colon, segments |-> segments]

Lifetime ==
    [bound |-> "Lifetime", modifier |-> "None", lifetimes |-> FALSE,
     leading_colon |-> FALSE, segments |-> <<>>]

\* a bound written as one ident, with or without arguments
Plain(segment) == TraitBound("None", FALSE, FALSE, <<segment>>)

\* the entry of the catalog for the segment, matched by name and number of
\* generic arguments, the name alone
generate_impl_AnyArity(path, sym) ==
    LET found == SelectSeq(TRAITS, LAMBDA t : t.name = path.ident)
    IN  IF found = <<>> THEN [some |-> FALSE]
        ELSE [some |-> TRUE,
              impl_block |->
                 [unsafety |-> found[1].is_unsafe, path |-> path,
                  impl_content |->
                     [i \in 1..Len(found[1].functions) |->
                        export_name(sym, path.tokens \o Name.sep
                                           \o found[1].functions[i])]],
              macro_rules |->
                 [i \in 1..Len(found[1].functions) |->
                    export_name(sym, path.tokens \o Name.sep
                                       \o found[1].functions[i])]]

\* supertraits::generate_impl: the impl of the supertrait for the proxy,
\* with the link name of every stub, and the export names of the
\* definitions for the macro; nothing for a segment the catalog has not
generate_impl(path, sym) ==
    LET found ==
            SelectSeq(TRAITS, LAMBDA t :
                /\ t.name = path.ident
                /\ CASE path.arguments = "None" /\ t.generics = 0 -> TRUE
                     [] path.arguments = "AngleBracketed" -> path.args = t.generics
                     [] OTHER -> FALSE)
    IN  IF found = <<>> THEN [some |-> FALSE]
        ELSE [some |-> TRUE,
              impl_block |->
                 [unsafety |-> found[1].is_unsafe, path |-> path,
                  impl_content |->
                     [i \in 1..Len(found[1].functions) |->
                        export_name(sym, path.tokens \o Name.sep
                                           \o found[1].functions[i])]],
              macro_rules |->
                 [i \in 1..Len(found[1].functions) |->
                    export_name(sym, path.tokens \o Name.sep
                                       \o found[1].functions[i])]]

\* the bounds the loop hands to generate_impl
Relayed(t) ==
    /\ t.bound = "Trait"
    /\ t.modifier = "None"
    /\ ~t.lifetimes
    /\ ~t.leading_colon
    /\ Len(t.segments) = 1

\* the loop, with the definitions of the macro left out
supertrait_loop_ImplOnly(supertraits, sym) ==
    LET found == SelectSeq([i \in 1..Len(supertraits) |->
                              IF Relayed(supertraits[i])
                              THEN generate_impl(supertraits[i].segments[1], sym)
                              ELSE [some |-> FALSE]],
                           LAMBDA g : g.some)
    IN  [super_impls |-> [i \in 1..Len(found) |-> found[i].impl_block],
         macro_content |-> <<>>]

\* the loop over input.supertraits: super_impls and macro_content grow by
\* what generate_impl returns for each bound that is a plain one-segment path
supertrait_loop(supertraits, sym) ==
    LET found == SelectSeq([i \in 1..Len(supertraits) |->
                              IF Relayed(supertraits[i])
                              THEN generate_impl(supertraits[i].segments[1], sym)
                              ELSE [some |-> FALSE]],
                           LAMBDA g : g.some)
    IN  [super_impls |-> [i \in 1..Len(found) |-> found[i].impl_block],
         macro_content |-> Flatten([i \in 1..Len(found) |-> found[i].macro_rules])]

\* the marker the interface requires of every implementation
ExternSafe ==
    TraitBound("None", FALSE, TRUE,
               <<PathSegment("extern_trait", <<>>, "None", 0),
                 PathSegment("ExternSafe", <<>>, "None", 0)>>)

\* the supertraits left as they were written
supertraits_push_Nothing(supertraits) == supertraits

\* input.supertraits.push(parse_quote!(#extern_trait::ExternSafe))
supertraits_push(supertraits) == Append(supertraits, ExternSafe)

\* the types of the built-in table that hold the marker, by name
impls ==
    {"()", "bool", "u8", "u16", "u32", "usize", "i8", "i16", "i32", "isize",
     "NonZero", "AtomicBool", "AtomicUsize", "AtomicIsize", "u64", "i64",
     "*const T", "*mut T", "NonNull", "&T", "&mut T", "[T; N]", "[T]", "Pin",
     "MaybeUninit", "Option", "Result", "UnsafeCell", "Cell", "RefCell",
     "Box", "Rc", "Arc", "String", "Vec", "VecDeque", "LinkedList",
     "BTreeSet", "BTreeMap", "BinaryHeap"}

\* implementation types: the name, the size in words, and whether the
\* program has an unsafe impl of the marker for the type
ImplTypes ==
    {[name |-> "usize", size |-> 1, unsafe_impl |-> FALSE],
     [name |-> "String", size |-> 3, unsafe_impl |-> FALSE],
     [name |-> "char", size |-> 1, unsafe_impl |-> FALSE],
     [name |-> "AnyImpl", size |-> 1, unsafe_impl |-> TRUE],
     [name |-> "CounterImpl", size |-> 1, unsafe_impl |-> FALSE]}

\* the bound holds of the type: the marker by the table or by the unsafe
\* impl; every other supertrait is implemented by the one who binds
Holds(ty, t) == t = ExternSafe => (ty.name \in impls \/ ty.unsafe_impl)

\* the supertrait lists of the declarations, each a choice of these bounds
\* in this order
SuperBounds ==
    <<Plain(PathSegment("Send", Name.Send, "None", 0)),
      Plain(PathSegment("Sync", Name.Sync, "None", 0)),
      Plain(PathSegment("Sized", Name.Sized, "None", 0)),
      Plain(PathSegment("Unpin", Name.Unpin, "None", 0)),
      Plain(PathSegment("Copy", Name.Copy, "None", 0)),
      Plain(PathSegment("Debug", Name.Debug, "None", 0)),
      Plain(PathSegment("Clone", Name.Clone, "None", 0)),
      Plain(PathSegment("Default", Name.Default, "None", 0)),
      Plain(PathSegment("AsRef", Name.AsRef, "AngleBracketed", 1)),
      Plain(PathSegment("AsMut", Name.AsMut, "AngleBracketed", 1)),
      Plain(PathSegment("AsRef", Name.AsRef_bare, "None", 0)),
      Plain(PathSegment("Display", Name.Display, "None", 0)),
      Plain(PathSegment("Fn", Name.Fn, "Parenthesized", 0)),
      TraitBound("None", FALSE, FALSE,
                 <<PathSegment("core", Name.core, "None", 0),
                   PathSegment("marker", Name.marker, "None", 0),
                   PathSegment("Send", Name.Send, "None", 0)>>),
      TraitBound("None", FALSE, TRUE,
                 <<PathSegment("core", Name.core, "None", 0),
                   PathSegment("marker", Name.marker, "None", 0),
                   PathSegment("Sync", Name.Sync, "None", 0)>>),
      TraitBound("None", TRUE, FALSE,
                 <<PathSegment("AsRef", Name.AsRef_hr, "AngleBracketed", 1)>>),
      TraitBound("Maybe", FALSE, FALSE,
                 <<PathSegment("Sized", Name.Sized, "None", 0)>>),
      Lifetime>>

RelayDeclarations ==
    {[methods |-> ms,
      supertraits |-> SelectSeq(SuperBounds, LAMBDA t : t \in ts)] :
        ms \in {<<>>, <<Name.get, Name.drop>>},
        ts \in {s \in SUBSET {SuperBounds[i] : i \in 1..Len(SuperBounds)} :
                    Cardinality(s) <= MaxSupertraits}}

\* #[extern_trait(Proxy)] on the declaration: the stubs of the methods and
\* of the relayed supertraits by link name, the definitions of the macro
\* by export name, the supertraits of the trait as it is emitted, and the
\* names of the drop thunk and of the type id on both sides
ExpandDecl(input) ==
    /\ scen = "Relay"
    /\ res = NoRes
    /\ LET sym == Symbol_new(env[1], Name.Resource)
           relay == supertrait_loop(input.supertraits, sym)
       IN  res' = [op |-> "expand", input |-> input,
                   impl_content |->
                      [i \in 1..Len(input.methods) |->
                          export_name(sym, input.methods[i])],
                   macro_content |->
                      [i \in 1..Len(input.methods) |->
                          export_name(sym, input.methods[i])]
                          \o relay.macro_content,
                   super_impls |-> relay.super_impls,
                   supertraits |-> supertraits_push(input.supertraits),
                   drop |-> [link_name |-> export_name(sym, Name.drop),
                             export_name |-> export_name(sym, Name.drop)],
                   typeid |-> [link_name |-> export_name(sym, Name.typeid),
                               export_name |-> export_name(sym, Name.typeid)]]
    /\ UNCHANGED <<env, scen, bound, proxies, strong, panicked>>

\* the symbols of the macro, each with the name of the type after it
macro_rules_PerType(decl, ty) ==
    [i \in 1..Len(decl.macro_content) |-> decl.macro_content[i] \o <<ty.name>>]
        \o <<decl.drop.export_name \o <<ty.name>>,
             decl.typeid.export_name \o <<ty.name>>>>

\* Trait!(Trait: ty), the macro_rules! of the declaration applied to the
\* type: the symbols it exports, those of the definitions of the methods,
\* then the drop thunk and the type id
macro_rules(decl, ty) ==
    decl.macro_content \o <<decl.drop.export_name, decl.typeid.export_name>>

\* a program with these bindings links when no symbol is exported twice
OneDefinition(exports) ==
    \A i, j \in 1..Len(exports) : i # j => exports[i] # exports[j]

\* #[extern_trait] impl Trait for ty: the impl and the size assertion
\* compile when the supertraits of the trait hold of ty and ty is small
\* enough; from_impl::<ty> and into_impl::<ty> also ask for the marker
ImplFor(ty) ==
    /\ scen = "Relay"
    /\ res.op = "expand"
    /\ LET ok == /\ SizeAssert(ty.size)
                 /\ \A i \in 1..Len(res.supertraits) : Holds(ty, res.supertraits[i])
       IN  res' = [op |-> "impl", ty |-> ty, decl |-> res, ok |-> ok,
                   from_impl |-> ok /\ Holds(ty, ExternSafe),
                   exports |-> macro_rules(res, ty)]
    /\ UNCHANGED <<env, scen, bound, proxies, strong, panicked>>

\* a second #[extern_trait] impl of the same trait, for a type that also
\* compiles, and the link of a program that holds both
ImplForAnother(ty) ==
    /\ scen = "Relay"
    /\ res.op = "impl"
    /\ res.ok
    /\ SizeAssert(ty.size)
    /\ \A i \in 1..Len(res.decl.supertraits) : Holds(ty, res.decl.supertraits[i])
    /\ res' = [op |-> "link", decl |-> res.decl,
               types |-> <<res.ty, ty>>,
               exports |-> <<res.exports, macro_rules(res.decl, ty)>>,
               alone |-> OneDefinition(macro_rules(res.decl, ty)),
               linked |-> OneDefinition(res.exports \o macro_rules(res.decl, ty))]
    /\ UNCHANGED <<env, scen, bound, proxies, strong, panicked>>

InitRelay ==
    /\ scen = "Relay"
    /\ env \in {e \in [Sites -> Environments] :
                  /\ e[2] = NoEnvironment
                  /\ e[1].CARGO_PKG_NAME \in {NotPresent, Var(Sample.pkg_a)}
                  /\ e[1].CARGO_PKG_VERSION = NotPresent
                  /\ e[1].CARGO_CRATE_NAME = NotPresent
                  /\ e[1].CARGO_MANIFEST_PATH = NotPresent
                  /\ e[1].call_site = "#0 bytes(10..40)"}
    /\ bound = ActualResource
    /\ proxies = [p \in Slots |-> FreeSlot]
    /\ strong = 0
    /\ res = NoRes
    /\ panicked = FALSE

NextRelay ==
    \/ \E input \in RelayDeclarations : ExpandDecl(input)
    \/ \E ty \in ImplTypes : ImplFor(ty)
    \/ \E ty \in ImplTypes : ImplForAnother(ty)

SpecRelay == InitRelay /\ [][NextRelay]_vars

-----------------------------------------------------------------------------
(* Claims on the capability relay and the marker, under SpecRelay *)

\* the trait the bound names: the ident of the last segment of its path
TraitOf(t) == t.segments[Len(t.segments)].ident

\* the number of type arguments the bound is written with
TypeArgs(t) ==
    IF t.segments[Len(t.segments)].arguments = "AngleBracketed"
    THEN t.segments[Len(t.segments)].args ELSE 0

\* the declaration lists the trait among its supertraits
Lists(input, trait) ==
    \E i \in 1..Len(input.supertraits) :
        /\ input.supertraits[i].bound = "Trait"
        /\ input.supertraits[i].modifier = "None"
        /\ TraitOf(input.supertraits[i]) = trait

\* the declaration lists the trait by its bare name
ListsByName(input, trait) ==
    \E i \in 1..Len(input.supertraits) :
        /\ Len(input.supertraits[i].segments) = 1
        /\ input.supertraits[i] = Plain(input.supertraits[i].segments[1])
        /\ TraitOf(input.supertraits[i]) = trait

\* the expansion implements the trait for the proxy
ProxyIs(trait) ==
    \E j \in 1..Len(res.super_impls) : res.super_impls[j].path.ident = trait

\* C15: the generated proxy type is Send (respectively Sync) if and only if
\* the interface declaration lists Send (respectively Sync) among its
\* supertraits; the generator adds no thread-safety marker that was not
\* declared and drops none that was.
C15_ThreadSafetyAsDeclared ==
    (scen = "Relay" /\ res.op = "expand") =>
        \A trait \in {"Send", "Sync"} : ProxyIs(trait) <=> Lists(res.input, trait)

\* C15 as amended: the proxy type is Send (respectively Sync) if and only if
\* the declaration lists Send (respectively Sync) by its bare name, with no
\* path before it, no leading colons and no for<> binder.
ThreadSafetyAsNamed ==
    (scen = "Relay" /\ res.op = "expand") =>
        \A trait \in {"Send", "Sync"} :
            ProxyIs(trait) <=> ListsByName(res.input, trait)

\* Sync is listed and Send is not, and the proxy is Sync and not Send
C15_Witness ==
    /\ scen = "Relay"
    /\ res.op = "expand"
    /\ ListsByName(res.input, "Sync")
    /\ ~Lists(res.input, "Send")
    /\ ProxyIs("Sync")
    /\ ~ProxyIs("Send")

\* the catalog as the claim lists it: name, number of type arguments, and
\* the methods of the entry
Catalog ==
    {<<"Send", 0, <<>>>>, <<"Sync", 0, <<>>>>, <<"Sized", 0, <<>>>>,
     <<"Unpin", 0, <<>>>>, <<"Copy", 0, <<>>>>,
     <<"Debug", 0, <<Name.fmt>>>>, <<"Clone", 0, <<Name.clone>>>>,
     <<"Default", 0, <<Name.default>>>>,
     <<"AsRef", 1, <<Name.as_ref>>>>, <<"AsMut", 1, <<Name.as_mut>>>>}

\* the supertrait is a trait whose name and number of type arguments match
\* an entry of the catalog
InCatalog(t) ==
    /\ t.bound = "Trait"
    /\ t.segments[Len(t.segments)].arguments # "Parenthesized"
    /\ \E c \in Catalog : c[1] = TraitOf(t) /\ c[2] = TypeArgs(t)

MethodsOf(t) == (CHOOSE c \in Catalog : c[1] = TraitOf(t) /\ c[2] = TypeArgs(t))[3]

\* the bindings of the expansion are those of the supertraits in `matching`,
\* in order: a marker impl without symbols for an entry without methods,
\* one stub and one definition per method for the others, under the same
\* symbol, and no other definition
BindingsAre(matching) ==
    /\ Len(res.super_impls) = Len(matching)
    /\ \A j \in 1..Len(matching) :
          /\ res.super_impls[j].path = matching[j].segments[Len(matching[j].segments)]
          /\ Len(res.super_impls[j].impl_content) = Len(MethodsOf(matching[j]))
    /\ Len(res.macro_content) = Len(res.input.methods)
          + Len(Flatten([j \in 1..Len(matching) |-> MethodsOf(matching[j])]))
    /\ SubSeq(res.macro_content, Len(res.input.methods) + 1, Len(res.macro_content))
          = Flatten([j \in 1..Len(res.super_impls) |-> res.super_impls[j].impl_content])

C16_WitnessSkipped ==
    /\ scen = "Relay"
    /\ res.op = "expand"
    /\ Len(res.input.supertraits) = 2
    /\ \A i \in 1..2 :
          /\ res.input.supertraits[i].bound = "Trait"
          /\ TraitOf(res.input.supertraits[i]) \in {"Display", "AsRef"}
    /\ res.super_impls = <<>>
    /\ res.macro_content = <<>>

C17_WitnessRefused ==
    /\ scen = "Relay"
    /\ res.op = "impl"
    /\ res.ty.name = "CounterImpl"
    /\ ~res.ok

\* the symbols the consumer side imports and the producer side exports
Imported ==
    {res.impl_content[i] : i \in 1..Len(res.impl_content)}
        \cup UNION {{res.super_impls[j].impl_content[i] :
                        i \in 1..Len(res.super_impls[j].impl_content)} :
                    j \in 1..Len(res.super_impls)}
        \cup {res.drop.link_name, res.typeid.link_name}

Exported ==
    {res.macro_content[i] : i \in 1..Len(res.macro_content)}
        \cup {res.drop.export_name, res.typeid.export_name}

\* C20: for every interface declaration, the set of symbols imported on the
\* consumer side (method stubs, capability stubs, the proxy destructor and
\* the type-identity check) equals the set of symbols exported by the macro
\* expansion of a binding.
C20_ImportsAreExports ==
    (scen = "Relay" /\ res.op = "expand") => Imported = Exported

\* methods, two capabilities with a method each, the destructor and the type id
C20_Witness ==
    /\ scen = "Relay"
    /\ res.op = "expand"
    /\ Len(res.impl_content) = 2
    /\ Len(res.super_impls) = 2
    /\ \A j \in 1..2 : Len(res.super_impls[j].impl_content) = 1
    /\ Cardinality(Imported) = 5
    /\ Imported = Exported

\* the set of the symbols of a binding
SymbolsOf(exports) == {exports[i] : i \in 1..Len(exports)}

\* C21: the symbols a binding exports depend only on the generation site of
\* the interface and on the member name, not on the implementing type: two
\* bindings of the same declaration export identical symbol sets, and at
\* most one of them can be linked into a program.
C21_OneBindingPerInterface ==
    (scen = "Relay" /\ res.op = "link") =>
        /\ SymbolsOf(res.exports[1]) = SymbolsOf(res.exports[2])
        /\ SymbolsOf(res.exports[1]) # {}
        /\ ~res.linked

\* two different types bound to a declaration whose four symbols are all
\* different; either binding links alone, the two together do not
C21_Witness ==
    /\ scen = "Relay"
    /\ res.op = "link"
    /\ res.types[1].name = "usize"
    /\ res.types[2].name = "AnyImpl"
    /\ res.alone
    /\ Len(res.exports[1]) = 4
    /\ ~res.linked

-----------------------------------------------------------------------------
(* Claims on the two functions generated for a method, under SpecNormalize *)

\* the method was accepted: a stub and a definition were generated
Accepted == scen = "Normalize" /\ res.op = "method" /\ res.out.macro_content # <<>>

Stub == res.out.impl_content[1].text
Definition == res.out.macro_content[1].text

\* the type of a result that is handed back as it is: the self kind around
\* the implementation type, the type as written, or no result
Unconverted(ty) ==
    IF ty = Default THEN [ctor |-> "None", elem |-> "()"]
    ELSE IF ty = Self THEN [ctor |-> "Value", elem |-> "$ty"]
    ELSE IF Recognized(ty) THEN [ctor |-> ty.ctor, elem |-> "$ty"]
    ELSE [ctor |-> "Typed", elem |-> ty]

\* C22: the producer definition converts its result into the erased
\* representation (into_repr, with the representation as declared return
\* type) if and only if the return type of the method is Self by value;
\* results of type &Self, &mut Self, *const Self, *mut Self, of any
\* non-Self type, and the absence of a result are returned unconverted.
C22_ConvertsSelfByValue ==
    Accepted =>
        /\ Definition.cast_output <=> res.sig.output = Self
        /\ Definition.output =
              IF res.sig.output = Self THEN [ctor |-> "Value", elem |-> "Repr"]
              ELSE Unconverted(res.sig.output)

\* a method of &mut self that returns Self
C22_Witness ==
    /\ Accepted
    /\ res.sig.receiver
    /\ res.sig.inputs = <<Ty("RefMut", <<Self>>)>>
    /\ res.sig.output = Self
    /\ Definition.cast_output
    /\ Definition.output.elem = "Repr"

\* a method that returns &mut Self
C22_WitnessReference ==
    /\ Accepted
    /\ res.sig.output = Ty("RefMut", <<Self>>)
    /\ ~Definition.cast_output
    /\ Definition.output = [ctor |-> "RefMut", elem |-> "$ty"]

\* the names are pairwise distinct
Distinct(names) == \A i, j \in 1..Len(names) : i # j => names[i] # names[j]

\* C23: in every normalized signature only a self-placeholder at parameter
\* index 0 is named self; every other parameter, a self-placeholder at a
\* later index included, is named _i for its index i, so the parameter
\* names of one generated function are pairwise distinct.
C23_ParameterNames ==
    Accepted =>
        /\ Len(Stub.params) = Len(res.sig.inputs)
        /\ \A i \in 1..Len(Stub.params) :
              Stub.params[i] = IF i = 1 /\ Recognized(res.sig.inputs[1])
                               THEN <<"self", 0>> ELSE <<"_", i - 1>>
        /\ Distinct(Stub.params)
        /\ Distinct(Definition.params)

\* fn f(self, _1: Self)
C23_Witness ==
    /\ Accepted
    /\ res.sig.inputs = <<Self, Self>>
    /\ Stub.params = <<<<"self", 0>>, <<"_", 1>>>>

\* the calling convention of a function declared with this abi
Convention(abi) == IF abi = "None" THEN "Rust" ELSE abi

\* C24: a method that declares an explicit calling convention is either
\* rejected by normalization or forwarded so that the consumer's import
\* declaration and the producer's exported definition of its boundary
\* symbol use the same calling convention as each other.
C24_SameConvention ==
    (scen = "Normalize" /\ res.op = "method" /\ res.sig.abi # "None") =>
        \/ /\ res.out.macro_content = <<>>
           /\ res.out.impl_content[1].kind = "error"
        \/ Convention(Stub.link_abi) = Convention(Definition.abi)

\* extern "C" fn f(&self) -> i32 is forwarded: the stub keeps the abi of the
\* method, the import and the definition are both of the Rust convention
C24_Witness ==
    /\ Accepted
    /\ res.sig.abi = "C"
    /\ res.sig.receiver
    /\ Stub.abi = "C"
    /\ Convention(Stub.link_abi) = "Rust"
    /\ Convention(Definition.abi) = "Rust"

\* C26: the consumer stub generated for a method has a self receiver if and
\* only if the declared method has one: a method declared without a
\* receiver whose first parameter has type Self, &Self, &mut Self or a
\* pointer to Self is emitted as an associated function without a receiver.
C26_ReceiverAsDeclared ==
    Accepted =>
        (res.sig.receiver <=>
            (Stub.params # <<>> /\ Stub.params[1] = <<"self", 0>>))

\* Where the method has a receiver, the stub has one.
ReceiverKept ==
    (Accepted /\ res.sig.receiver) => Stub.params[1] = <<"self", 0>>

-----------------------------------------------------------------------------
(* The helper attribute #[extern_trait(crate = path)] on the item          *)

MaxAttrs == 3

\* a nested meta of an argument list: key, or key = value
Meta(key, value) == [key |-> key, value |-> value]

\* the nested meta has no "= value"
NoValue == ""

\* #[path], or #[path(metas)] where delimited
Attribute(path, delimited, metas) ==
    [path |-> path, delimited |-> delimited, metas |-> metas]

\* Path::is_ident: a path of this one segment
is_ident(path, ident) == path = <<ident>>

\* the attributes an item carries
AttrKinds ==
    {Attribute(<<"doc">>, TRUE, <<Meta(<<"hidden">>, NoValue)>>),
     Attribute(<<"inline">>, FALSE, <<>>),
     Attribute(<<"extern_trait">>, TRUE, <<Meta(<<"crate">>, "a")>>),
     Attribute(<<"extern_trait">>, TRUE, <<Meta(<<"crate">>, "b::c")>>),
     Attribute(<<"extern_trait">>, TRUE, <<Meta(<<"bogus">>, NoValue)>>),
     Attribute(<<"extern_trait">>, TRUE, <<>>),
     Attribute(<<"extern_trait">>, FALSE, <<>>),
     Attribute(<<"extern_trait">>, TRUE, <<Meta(<<"crate">>, "a"), Meta(<<"crate">>, "a")>>),
     Attribute(<<"extern_trait">>, TRUE, <<Meta(<<"bogus">>, NoValue), Meta(<<"crate">>, "a")>>)}

RECURSIVE AttrsUpTo(_)
AttrsUpTo(n) ==
    IF n = 0 THEN {<<>>}
    ELSE LET sub == AttrsUpTo(n - 1)
         IN  sub \cup {Append(attrs, a) : attrs \in {x \in sub : Len(x) = n - 1},
                                          a \in AttrKinds}

\* the closure extern_trait_path hands to parse_extern_trait_attr, on one
\* nested meta: the error it returns ("" for Ok) and extern_trait_path after
closure(meta, extern_trait_path) ==
    IF is_ident(meta.key, "crate")
    THEN IF extern_trait_path.set
         THEN [err |-> "duplicate extern_trait crate attribute",
               extern_trait_path |-> extern_trait_path]
         ELSE IF meta.value = NoValue
         THEN [err |-> "expected =", extern_trait_path |-> extern_trait_path]
         ELSE [err |-> "", extern_trait_path |-> Var(meta.value)]
    ELSE [err |-> "unsupported extern_trait attribute",
          extern_trait_path |-> extern_trait_path]

\* Attribute::parse_nested_meta with that closure: the nested metas from the
\* i-th on, up to the first error
RECURSIVE parse_nested_meta(_, _, _)
parse_nested_meta(attr, i, extern_trait_path) ==
    IF ~attr.delimited
    THEN [err |-> "expected attribute arguments in parentheses",
          extern_trait_path |-> extern_trait_path]
    ELSE IF i > Len(attr.metas)
    THEN [err |-> "", extern_trait_path |-> extern_trait_path]
    ELSE LET r == closure(attr.metas[i], extern_trait_path)
         IN  IF r.err # "" THEN r
             ELSE parse_nested_meta(attr, i + 1, r.extern_trait_path)

\* as parse_extern_trait_attr, with an attribute that failed to parse kept
RECURSIVE parse_extern_trait_attr_KeepFailed(_, _)
parse_extern_trait_attr_KeepFailed(attrs, extern_trait_path) ==
    IF attrs = <<>>
    THEN [attrs |-> <<>>, errors |-> <<>>, extern_trait_path |-> extern_trait_path]
    ELSE IF ~is_ident(Head(attrs).path, "extern_trait")
    THEN LET rest == parse_extern_trait_attr_KeepFailed(Tail(attrs), extern_trait_path)
         IN  [rest EXCEPT !.attrs = <<Head(attrs)>> \o @]
    ELSE LET r == parse_nested_meta(Head(attrs), 1, extern_trait_path)
             rest == parse_extern_trait_attr_KeepFailed(Tail(attrs), r.extern_trait_path)
         IN  IF r.err # ""
             THEN [rest EXCEPT !.attrs = <<Head(attrs)>> \o @,
                               !.errors = <<r.err>> \o @]
             ELSE rest

\* parse_extern_trait_attr with that closure: attrs.retain over the
\* attributes in order; the attributes kept, the errors combined, and the
\* closure's extern_trait_path at the end
RECURSIVE parse_extern_trait_attr(_, _)
parse_extern_trait_attr(attrs, extern_trait_path) ==
    IF attrs = <<>>
    THEN [attrs |-> <<>>, errors |-> <<>>, extern_trait_path |-> extern_trait_path]
    ELSE IF ~is_ident(Head(attrs).path, "extern_trait")
    THEN LET rest == parse_extern_trait_attr(Tail(attrs), extern_trait_path)
         IN  [rest EXCEPT !.attrs = <<Head(attrs)>> \o @]
    ELSE LET r == parse_nested_meta(Head(attrs), 1, extern_trait_path)
             rest == parse_extern_trait_attr(Tail(attrs), r.extern_trait_path)
         IN  IF r.err # ""
             THEN [rest EXCEPT !.errors = <<r.err>> \o @]
             ELSE rest

\* extern_trait_path: the attributes left on the item and the result
extern_trait_path(attrs) ==
    LET r == parse_extern_trait_attr(attrs, NotPresent)
    IN  [attrs |-> r.attrs,
         result |-> IF r.errors # <<>> THEN Err(r.errors)
                    ELSE Ok(IF r.extern_trait_path.set THEN r.extern_trait_path.value
                            ELSE "::extern_trait")]

\* decl::expand and imp::expand call extern_trait_path on the attributes of
\* their item first
ExternTraitPath(attrs) ==
    /\ scen = "Attr"
    /\ res = NoRes
    /\ res' = [op |-> "path", input |-> attrs, out |-> extern_trait_path(attrs)]
    /\ UNCHANGED <<env, scen, bound, proxies, strong, panicked>>

InitAttr ==
    /\ scen = "Attr"
    /\ env = <<>>
    /\ bound = ActualResource
    /\ proxies = [p \in Slots |-> FreeSlot]
    /\ strong = 0
    /\ res = NoRes
    /\ panicked = FALSE

NextAttr == \E attrs \in AttrsUpTo(MaxAttrs) : ExternTraitPath(attrs)

SpecAttr == InitAttr /\ [][NextAttr]_vars

-----------------------------------------------------------------------------
(* Claims on the helper attribute, under SpecAttr *)

\* the attribute is an extern_trait attribute
IsExternTrait(attr) == attr.path = <<"extern_trait">>

\* the values given to crate in the extern_trait attributes, in order
RECURSIVE CrateEntries(_)
CrateEntries(attrs) ==
    IF attrs = <<>> THEN <<>>
    ELSE LET a == Head(attrs)
         IN  (IF IsExternTrait(a)
              THEN [i \in 1..Len(SelectSeq(a.metas, LAMBDA m : m.key = <<"crate">>)) |->
                        SelectSeq(a.metas, LAMBDA m : m.key = <<"crate">>)[i].value]
              ELSE <<>>) \o CrateEntries(Tail(attrs))

\* an extern_trait attribute uses a key other than crate
UnknownKey(attrs) ==
    \E i \in 1..Len(attrs) :
        /\ IsExternTrait(attrs[i])
        /\ \E j \in 1..Len(attrs[i].metas) : attrs[i].metas[j].key # <<"crate">>

\* the extern_trait attributes that begin with a key other than crate
UnknownFirst(attrs) ==
    {i \in 1..Len(attrs) :
        /\ IsExternTrait(attrs[i])
        /\ attrs[i].metas # <<>>
        /\ attrs[i].metas[1].key # <<"crate">>}

\* every extern_trait attribute is an argument list
WellFormed(attrs) ==
    \A i \in 1..Len(attrs) : IsExternTrait(attrs[i]) => attrs[i].delimited

C25_WitnessErrors ==
    /\ scen = "Attr" /\ res.op = "path"
    /\ Len(res.input) = 3
    /\ UnknownFirst(res.input) = {1, 3}
    /\ CrateEntries(res.input) = <<"a">>
    /\ res.out.attrs = <<>>
    /\ ~res.out.result.ok
    /\ Len(res.out.result.err) = 2

-----------------------------------------------------------------------------
(* Claims on the ownership of the value through the conversions, under Spec *)

\* C27: a successful into_impl::<T> consumes the proxy without calling the
\* destructor thunk, and the concrete value is destroyed exactly once,
\* later, when the returned T is dropped; in no execution of from_impl,
\* into_impl or a failed type check is the same concrete value destroyed
\* twice.
C27_IntoImplMovesOut ==
    scen = "Any" =>
        /\ \A p \in Slots :
              /\ proxies[p].st = "taken" =>
                    (proxies[p].thunk = 0 /\ proxies[p].dtor = 0)
              /\ proxies[p].st = "released" =>
                    (proxies[p].thunk = 0 /\ proxies[p].dtor = 1)
              /\ proxies[p].dtor <= 1
        /\ (res.op = "into_impl" /\ res.ok) => proxies[res.p].st = "taken"
        /\ (res.op = "into_impl" /\ ~res.ok) =>
              (proxies[res.p].thunk = 1 /\ proxies[res.p].dtor = 1)
        /\ res.op = "from_impl" =>
              /\ res.dtor <= 1
              /\ res.ok => (res.dtor = 0 /\ proxies[res.p].dtor = 0)

\* the value that into_impl returned has gone out of scope
C27_Witness ==
    /\ scen = "Any"
    /\ res.op = "drop_impl"
    /\ proxies[res.p].st = "released"
    /\ proxies[res.p].thunk = 0
    /\ proxies[res.p].dtor = 1

\* into_impl::<OtherImpl>() panicked and the unwinding dropped the proxy
C27_WitnessFailed ==
    /\ scen = "Any"
    /\ res.op = "into_impl"
    /\ ~res.ok
    /\ proxies[res.p].st = "dropped"
    /\ proxies[res.p].dtor = 1

-----------------------------------------------------------------------------
(* Claims on proxies passed by value, under SpecForward *)

\* a forwarded call that took proxies by value has returned
ByValueCall == scen = "Counter" /\ res.op \in {"increment", "add"}

\* how many of the values the implementation received, and destroys as their
\* owner, are the concrete value v
Destroyed(v) == Cardinality({j \in 1..Len(res.received) : res.received[j] = v})

\* the consumer ran no thunk for the proxies it gave away, and they are
\* gone: the proxy that holds the result is the only one left of the call
ConsumerLetGo ==
    \A i \in 1..Len(res.moved) :
        /\ proxies[res.moved[i]].thunk = 0
        /\ res.moved[i] # res.p =>
              (proxies[res.moved[i]].st = "passed" /\ proxies[res.moved[i]].val = <<>>)

\* C28: when a proxy is passed by value to a forwarded method, as the
\* receiver or as another Self parameter, the consumer side does not run
\* the destructor thunk for it: ownership moves to the implementation, each
\* concrete value passed in is destroyed at most once across the call, and
\* a returned proxy is the sole owner of the returned value.
C28_ByValueMoves ==
    ByValueCall =>
        /\ ConsumerLetGo
        /\ res.received = res.passed
        /\ \A i \in 1..Len(res.passed) :
              (\A k \in 1..Len(res.passed) : k # i => res.passed[k] # res.passed[i])
                  => Destroyed(res.passed[i]) <= 1
        /\ proxies[res.p].st = "live"
        /\ proxies[res.p].thunk = 0

\* What the consumer does holds for every by-value call, and the whole of
\* C28 for the receiver alone.
ByValueReceiverMoves ==
    ByValueCall =>
        /\ ConsumerLetGo
        /\ proxies[res.p].st = "live"
        /\ res.op = "increment" =>
              (res.received = res.passed /\ Destroyed(res.passed[1]) = 1)

-----------------------------------------------------------------------------
(* Claims on the methods of relayed capabilities, under SpecNormalize *)

\* C29: generate_impl finishes without panicking for every catalog
\* capability and every type argument: when the signature obtained by
\* textually substituting the type argument into the method template fails
\* re-verification, the failure is reported as a compile diagnostic and
\* generation of the other members continues.
C29_GenerateImplNeverPanics ==
    (scen = "Normalize" /\ res.op = "generate_impl") =>
        /\ ~panicked
        /\ \A i \in 1..Len(res.result) :
              ~res.result[i].ok =>
                  \E j \in 1..Len(res.errors) : res.errors[j] = res.result[i].err

\* Where every substituted signature passes the normalizer again,
\* generate_impl returns a stub and a definition per method; an entry
\* without type parameter always does.
GenerateImplWhenVerified ==
    (scen = "Normalize" /\ res.op = "generate_impl") =>
        /\ panicked <=> \E i \in 1..Len(res.result) : ~res.result[i].ok
        /\ ~panicked =>
              (Len(res.impl_content) = 1 /\ Len(res.macro_content) = 1)
        /\ res.args = <<>> => ~panicked

-----------------------------------------------------------------------------
(* Claims on the Copy marker and the destructor, under SpecRelay *)

\* the expansion holds impl Copy for the proxy
CarriesCopy ==
    \E i \in 1..Len(res.super_impls) : res.super_impls[i].path.ident = "Copy"

\* the expansion holds impl Drop for the proxy, whose drop calls the thunk
\* that the binding exports
RunsDestructor ==
    /\ res.drop.link_name # <<>>
    /\ res.drop.link_name = res.drop.export_name

\* C30: no generated proxy both carries the bitwise-duplicate (Copy) marker
\* and runs the concrete destructor on drop: for every interface, including
\* one that declares Copy, a bitwise copy of a proxy can never lead to the
\* destructor thunk running twice on copies of the same concrete value.
C30_CopyWithoutDestructor ==
    (scen = "Relay" /\ res.op = "expand") => ~(CarriesCopy /\ RunsDestructor)

\* The proxy of every declaration runs the destructor on drop, and carries
\* Copy exactly when the declaration lists it by its bare name.
DestructorAlways ==
    (scen = "Relay" /\ res.op = "expand") =>
        /\ RunsDestructor
        /\ CarriesCopy <=>
              \E i \in 1..Len(res.input.supertraits) :
                  /\ Relayed(res.input.supertraits[i])
                  /\ res.input.supertraits[i].segments[1].ident = "Copy"

=============================================================================
